---- MODULE Spec2Model ----
(***************************************************************************)
(* Model of the isochrone front end of Mawaquit Web.                       *)
(*                                                                         *)
(* IsochroneGenerator (isochrones.js) hands requests to a web worker,      *)
(* keeps the promise callbacks of the requests in flight in the Map        *)
(* pendingRequests, and settles them from three places: the worker's       *)
(* reply, the 30 s timer armed by generate(), and the worker's error       *)
(* event.  Without a worker generate() answers with generateSync().        *)
(*                                                                         *)
(* PrayTimes (app.js) is the engine behind it: instances are made by the   *)
(* constructor and asked by getTimes; its settings parser eval, its        *)
(* julian and MawaquitApp.clipBands are modelled as functions and called   *)
(* in specifications of their own.                                         *)
(*                                                                         *)
(* debounce and throttle (utils.js) wrap a function; their setTimeout      *)
(* callbacks are tasks that run at their due time or later, on a clock     *)
(* that counts ticks.                                                      *)
(*                                                                         *)
(* MawaquitApp is the page: its handlers onCountryChange and               *)
(* onIsochroneRequest are async, so each is cut at its await and the       *)
(* handlers waiting there are the entries of running, with the locals      *)
(* they read before the await.  The isochrone buttons are enabled in the   *)
(* page as loaded and disabled by init(); a time zone is named by its      *)
(* country.  The map manager keeps its isochrone layers and label markers  *)
(* in two lists; its drawIsochrones and clearIsochrones are also called    *)
(* on their own, on lists of bands of every shape.                         *)
(*                                                                         *)
(* The two sampling loops of generateSync are also taken round by round,   *)
(* on floating-point numbers and on exact ones.                            *)
(*                                                                         *)
(* Times are fixed-point numbers: one unit is 1/Scale of a minute.  fix    *)
(* is modelled a second time on binary floating point numbers with a       *)
(* significand of Precision bits, rounded to nearest, ties to even.        *)
(***************************************************************************)
EXTENDS Integers, Sequences, FiniteSets, TLC

VARIABLES
    worker,           \* this.worker: "alive" or "none" (null)
    pendingRequests,  \* this.pendingRequests: the keys of the Map; the value
                      \* kept under key id is the {resolve, reject} pair of
                      \* the promise made for that id
    requestId,        \* this.requestId
    promise,          \* the promises made by generate(), by id: state, value
                      \* and the number of resolve/reject calls made on it
    posted,           \* ids of the messages given to worker.postMessage, in order
    outbox,           \* replies of the worker not yet dispatched to onmessage
    timers,           \* ids whose setTimeout callback has not run yet
    nReplies,         \* number of replies the worker has sent
    nCrashes,         \* number of error events the worker has raised
    lastSync,         \* the last generateSync call: arguments, result, solves
    methods,          \* PrayTimes.methods: the params of each method (static)
    pt,               \* the PrayTimes instance in use: settings and fields
    lastCall,         \* the last call of a function: arguments and result,
                      \* or the locals of a loop on its way
    clock,            \* the time, in ticks
    tasks,            \* the setTimeout callbacks of the wrappers not yet run
    debounced,        \* a function made by debounce: wait and its timeout
    throttled,        \* a function made by throttle: limit and its inThrottle
    wrapperCalls,     \* the calls made on the wrapper: time and arguments
    funcRuns,         \* the runs of the wrapped func: time and arguments
    appState,         \* MawaquitApp.state
    mapManager,       \* mapManager: bounds, isochroneLayers, isochroneLabels
    uiManager,        \* uiManager: the isochrone buttons, the country list
    running,          \* the async handlers of the app waiting at their await
    sinceClear        \* onClearIsochrones has run and no request was issued since

vars == <<worker, pendingRequests, requestId, promise, posted, outbox,
          timers, nReplies, nCrashes, lastSync, methods, pt, lastCall,
          clock, tasks, debounced, throttled, wrapperCalls, funcRuns,
          appState, mapManager, uiManager, running, sinceClear>>

\* the state of the generator and the state of the engine
generatorVars == <<worker, pendingRequests, requestId, promise, posted, outbox,
                   timers, nReplies, nCrashes, lastSync>>

engineVars == <<methods, pt, lastCall>>

\* the state of the wrappers of utils.js
utilVars == <<clock, tasks, debounced, throttled, wrapperCalls, funcRuns>>

\* the state of the application, its map and its controls
appVars == <<appState, mapManager, uiManager, running, sinceClear>>

\* the state of the page outside the generator and the engine
pageVars == <<utilVars, appVars>>

----------------------------------------------------------------------------
(* Bounds of the model *)

MaxRequests == 2
MaxReplies == 2
MaxCrashes == 1
Scale == 4

(* Constants of the program *)

GridSteps == 10
MaxBands == 20
NumColors == 10

----------------------------------------------------------------------------
(* Arithmetic of the host language *)

Floor(x) == x \div Scale

Ceil(x) == -((-x) \div Scale)

JsRem(a, b) == IF a >= 0 THEN a % b ELSE -((-a) % b)

SetMin(S) == CHOOSE x \in S : \A y \in S : x <= y

SetMax(S) == CHOOSE x \in S : \A y \in S : x >= y

Min2(a, b) == IF a <= b THEN a ELSE b

----------------------------------------------------------------------------
(* PrayTimes.getTimes as generateSync uses it                              *)
(*                                                                         *)
(* The trigonometry of getTimes is not computed here: the values it        *)
(* returns over the sampling grid are an input, a field.  A field gives    *)
(* the time of the requested prayer at grid point (i, j), i counting the   *)
(* latitude steps from minLat and j the longitude steps from minLon:       *)
(* base - dLon * j + dLat * i, and no time at all from latitude step       *)
(* polarFrom on (the sun does not reach the angle there).  shortLat and    *)
(* shortLon say whether the accumulated floating-point steps of the loop   *)
(* overshoot the upper edge, so that the last row or column is not visited.*)

TimeNames == {"imsak", "fajr", "sunrise", "dhuhr", "asr", "sunset",
              "maghrib", "isha", "midnight"}

Number(v) == [kind |-> "number", v |-> v]

InvalidTime == [kind |-> "invalidTime"]

Undefined == [kind |-> "undefined"]

\* times[prayer] of getTimes(date, [lat, lon], timezone, 0, 'Float'), times 60
getTimes(prayer, field, i, j) ==
    IF prayer \notin TimeNames THEN Undefined
    ELSE IF i >= field.polarFrom THEN InvalidTime
    ELSE Number(field.base - field.dLon * j + field.dLat * i)

\* times[prayer] && !isNaN(times[prayer])
Truthy_NotNaN(t) == t.kind = "number" /\ t.v # 0

LatSteps(field) == 0 .. (IF field.shortLat THEN GridSteps - 1 ELSE GridSteps)

LonSteps(field) == 0 .. (IF field.shortLon THEN GridSteps - 1 ELSE GridSteps)

\* the values pushed on sampleTimes by the two sampling loops
sampleTimes(prayer, field) ==
    { getTimes(prayer, field, i, j).v :
        <<i, j>> \in { g \in LatSteps(field) \X LonSteps(field) :
                         Truthy_NotNaN(getTimes(prayer, field, g[1], g[2])) } }

\* the number of getTimes calls made by the two sampling loops
solves(field) == Cardinality(LatSteps(field)) * Cardinality(LonSteps(field))

formatTime(minutes) ==
    [hours |-> JsRem(minutes \div 60, 24), mins |-> JsRem(minutes, 60)]

minTime(samples) == SetMin(samples) - 2 * Scale

maxTime(samples) == SetMax(samples) + 2 * Scale

numBands(samples) == Min2(Ceil(maxTime(samples) - minTime(samples)), MaxBands)

\* A longitude is kept as the fraction <<a, b>> of the width it lies at, east
\* of minLon, a latitude as the fraction of the height north of minLat; a
\* point is <<longitude, latitude>>.

\* the ring of the rectangle between two longitudes, from minLat to maxLat
Rectangle(lonLeft, lonRight) ==
    << <<lonLeft, <<0, 1>>>>, <<lonRight, <<0, 1>>>>, <<lonRight, <<1, 1>>>>,
       <<lonLeft, <<1, 1>>>>, <<lonLeft, <<0, 1>>>> >>

\* (lonLeft + lonRight) / 2 of two longitudes with the same denominator
Midpoint(lonLeft, lonRight) == <<lonLeft[1] + lonRight[1], 2 * lonLeft[2]>>

\* The polygon and the labelPos of a band are not kept in the band: they are
\* these functions of its lonLeft and lonRight.
polygon(band) == Rectangle(band.lonLeft, band.lonRight)

labelPos(band) == <<Midpoint(band.lonLeft, band.lonRight), <<1, 2>>>>

\* the band pushed in round i of the band loop (i counts from 0); lonLeft and
\* lonRight are kept as the fraction of the width: <<numerator, denominator>>
Band(samples, i) ==
    LET minute == Floor(minTime(samples)) + i
        n == numBands(samples)
    IN  [minute |-> minute,
         label |-> formatTime(minute),
         lonLeft |-> <<i, n>>,
         lonRight |-> <<i + 1, n>>,
         color |-> i % NumColors]

\* variant: the error is reported next to a band list
NoSamplesResult_WithBands == [error |-> "No valid times found", bands |-> << >>]

NoSamplesResult == [error |-> "No valid times found"]

BandsResult(samples) ==
    [bands |-> [k \in 1 .. numBands(samples) |-> Band(samples, k - 1)]]

\* variant: without the test of sampleTimes.length
generateSync_NoEmptyCheck(prayer, field) ==
    LET samples == sampleTimes(prayer, field)
    IN  IF samples = {} THEN [bands |-> << >>]
        ELSE BandsResult(samples)

generateSync(prayer, field) ==
    LET samples == sampleTimes(prayer, field)
    IN  IF samples = {} THEN NoSamplesResult
        ELSE BandsResult(samples)

----------------------------------------------------------------------------
(* Inputs *)

\* prayer names a caller may pass: names of the table, other keys of the
\* object returned by getTimes, and a name that is no key of it
Prayers == {"fajr", "dhuhr", "isha", "midnight", "tarawih"}

\* the seven prayers of the isochrone table
TablePrayers == {"fajr", "sunrise", "dhuhr", "asr", "sunset", "maghrib", "isha"}

Field(base, dLon, dLat, polarFrom, shortLat, shortLon) ==
    [base |-> base, dLon |-> dLon, dLat |-> dLat, polarFrom |-> polarFrom,
     shortLat |-> shortLat, shortLon |-> shortLon]

\* Fields sampled by the fallback: a region inside one clock minute, regions
\* some minutes wide, regions wider than MaxBands minutes, times around
\* midnight, and regions partly or wholly without a valid time.
Bases == {0, 3 * Scale + 1, 600 * Scale, 600 * Scale + 1}

Fields ==
    { Field(b, dLon, dLat, pf, sLat, sLon) :
        b \in Bases, dLon \in {0, 1, Scale, 3 * Scale}, dLat \in {-1, 0, 2},
        pf \in {0, 5, GridSteps + 1}, sLat \in BOOLEAN, sLon \in BOOLEAN }

\* the fields used where the fallback runs next to the worker protocol
FewFields ==
    { Field(600 * Scale + 1, 1, 0, GridSteps + 1, FALSE, FALSE),
      Field(600 * Scale, 3 * Scale, 2, 0, FALSE, TRUE) }

FewPrayers == {"fajr", "tarawih"}

\* what a reply of the worker may carry in e.data.type and e.data.error
ReplyTypes == {"result", "error"}

ReplyErrors == {"none", "Calculation failed"}

----------------------------------------------------------------------------
(* PrayTimes: values, settings and the static tables                      *)
(*                                                                         *)
(* A JavaScript number is kept in thousandths: Num(18500) is 18.5.  A      *)
(* string is the sequence of its characters.  NaN is a value of its own.   *)

Num(n) == [kind |-> "number", v |-> n]

NaN == [kind |-> "NaN"]

Str(chars) == [kind |-> "string", chars |-> chars]

DigitChars == <<"0", "1", "2", "3", "4", "5", "6", "7", "8", "9">>

Digits == { DigitChars[k] : k \in 1 .. Len(DigitChars) }

DigitVal(c) == (CHOOSE k \in 1 .. Len(DigitChars) : DigitChars[k] = c) - 1

\* the decimal digits of a natural number
RECURSIVE NatChars(_)
NatChars(n) ==
    IF n < 10 THEN <<DigitChars[n + 1]>>
    ELSE Append(NatChars(n \div 10), DigitChars[(n % 10) + 1])

\* the digits after the decimal point of f thousandths, without trailing zeros
FracChars(f) ==
    IF f = 0 THEN << >>
    ELSE IF f % 100 = 0 THEN <<".", DigitChars[(f \div 100) + 1]>>
    ELSE IF f % 10 = 0
         THEN <<".", DigitChars[(f \div 100) + 1], DigitChars[((f \div 10) % 10) + 1]>>
    ELSE <<".", DigitChars[(f \div 100) + 1], DigitChars[((f \div 10) % 10) + 1],
           DigitChars[(f % 10) + 1]>>

\* String(st)
String(st) ==
    IF st.kind = "string" THEN st.chars
    ELSE IF st.kind = "NaN" THEN <<"N", "a", "N">>
    ELSE LET a == IF st.v < 0 THEN -st.v ELSE st.v
         IN  (IF st.v < 0 THEN <<"-">> ELSE << >>)
                 \o NatChars(a \div 1000) \o FracChars(a % 1000)

\* the characters the pattern [^0-9.+-] does not match
NumberChars == Digits \cup {".", "+", "-"}

\* the longest prefix of chars made of characters of the set S
PrefixIn(chars, S) ==
    LET n == CHOOSE k \in 0 .. Len(chars) :
                 /\ \A i \in 1 .. k : chars[i] \in S
                 /\ k = Len(chars) \/ chars[k + 1] \notin S
    IN  SubSeq(chars, 1, n)

\* the characters of chars from position k on
From(chars, k) == SubSeq(chars, k, Len(chars))

\* the natural number written by a sequence of digits
RECURSIVE NatOf(_)
NatOf(digits) ==
    IF digits = << >> THEN 0
    ELSE 10 * NatOf(SubSeq(digits, 1, Len(digits) - 1))
             + DigitVal(digits[Len(digits)])

\* the thousandths written by the digits after a decimal point
FracOf(digits) ==
    LET d(k) == IF k <= Len(digits) THEN DigitVal(digits[k]) ELSE 0
    IN  100 * d(1) + 10 * d(2) + d(3)

\* parseFloat(val) for a val made of digits, '.', '+' and '-': the longest
\* prefix that is a decimal literal, NaN if there is none
parseFloat(val) ==
    LET signed == val # << >> /\ val[1] \in {"+", "-"}
        body == IF signed THEN Tail(val) ELSE val
        int == PrefixIn(body, Digits)
        rest == From(body, Len(int) + 1)
        frac == IF rest # << >> /\ rest[1] = "."
                THEN PrefixIn(Tail(rest), Digits) ELSE << >>
        mag == 1000 * NatOf(int) + FracOf(frac)
    IN  IF int = << >> /\ frac = << >> THEN NaN
        ELSE Num(IF signed /\ val[1] = "-" THEN -mag ELSE mag)

\* String(st).split(/[^0-9.+-]/)[0], then parseFloat if it is not empty
eval(st) ==
    LET val == PrefixIn(String(st), NumberChars)
    IN  IF val # << >> THEN parseFloat(val) ELSE Num(0)

\* chars.indexOf(word) > -1
Contains(chars, word) ==
    \E k \in 1 .. Len(chars) - Len(word) + 1 :
        SubSeq(chars, k, k + Len(word) - 1) = word

isMin(arg) == arg.kind = "string" /\ Contains(arg.chars, <<"m", "i", "n">>)

\* the strings of the settings
Standard == Str(<<"S", "t", "a", "n", "d", "a", "r", "d">>)

Hanafi == Str(<<"H", "a", "n", "a", "f", "i">>)

Jafari == Str(<<"J", "a", "f", "a", "r", "i">>)

NightMiddle == Str(<<"N", "i", "g", "h", "t", "M", "i", "d", "d", "l", "e">>)

AngleBased == Str(<<"A", "n", "g", "l", "e", "B", "a", "s", "e", "d">>)

OneSeventh == Str(<<"O", "n", "e", "S", "e", "v", "e", "n", "t", "h">>)

None == Str(<<"N", "o", "n", "e">>)

\* n minutes, as the settings write them: 'n min'
Minutes(n) == Str(NatChars(n) \o <<" ", "m", "i", "n">>)

\* PrayTimes.methods as the class is loaded: the params of each method
StaticMethods ==
    [MWL |-> [fajr |-> Num(18000), isha |-> Num(17000)],
     ISNA |-> [fajr |-> Num(15000), isha |-> Num(15000)],
     Egypt |-> [fajr |-> Num(19500), isha |-> Num(17500)],
     Makkah |-> [fajr |-> Num(18500), isha |-> Minutes(90)],
     Karachi |-> [fajr |-> Num(18000), isha |-> Num(18000)],
     Tehran |-> [fajr |-> Num(17700), isha |-> Num(14000),
                 maghrib |-> Num(4500), midnight |-> Jafari],
     Jafari |-> [fajr |-> Num(16000), isha |-> Num(14000),
                 maghrib |-> Num(4000), midnight |-> Jafari]]

defaultParams == [maghrib |-> Minutes(0), midnight |-> Standard]

\* f overridden by the entries of g (Object.assign, and the loops that copy
\* one object's entries into another)
Assign(f, g) ==
    [k \in DOMAIN f \cup DOMAIN g |-> IF k \in DOMAIN g THEN g[k] ELSE f[k]]

\* the first loop of the constructor: every method gets the default params
\* it does not have
FillDefaults(ms) == [m \in DOMAIN ms |-> Assign(defaultParams, ms[m])]

\* no instance has been constructed
NoInstance == [made |-> FALSE]

\* no call has been made
NoCall == [op |-> "none"]

\* no function has been wrapped by debounce or throttle
NoWrapper == [made |-> FALSE]

\* no bands: null for state.lastClippedBands, no request behind the layers
\* of the map
NoBands ==
    [prayer |-> "none", bounds |-> "none", timezone |-> "none",
     clip |-> "none", bands |-> << >>]

\* mapManager as its constructor makes it; drawnFrom is kept beside it: the
\* request whose bands the isochrone layers of the map were made from
NewMapManager ==
    [bounds |-> "none", isochroneLayers |-> << >>, isochroneLabels |-> << >>,
     drawnFrom |-> NoBands]

\* this.state as the constructor of MawaquitApp makes it; "none" is null.
\* The time zone is known by the country it belongs to ("none": 0), the
\* country data by its country and by whether it has the outline, data[0].
InitialState ==
    [currentCountry |-> "none", currentTimezone |-> "none",
     countryData |-> [country |-> "none", outline |-> FALSE],
     activeIsochrone |-> "none", lastClippedBands |-> NoBands]

\* variant: January and February are not moved to the year before
julian_NoShift(year, month, day) ==
    LET A == year \div 100
        B == 2 - A + A \div 4
    IN  2 * ((1461 * (year + 4716)) \div 4 + (306001 * (month + 1)) \div 10000
             + day + B) - 3049

\* julian(year, month, day), doubled: a Julian date ends in .5.
\* Math.floor(365.25 * x) is 1461 x \div 4 and Math.floor(30.6001 * x) is
\* 306001 x \div 10000.
julian(year, month, day) ==
    LET y == IF month <= 2 THEN year - 1 ELSE year
        m == IF month <= 2 THEN month + 12 ELSE month
        A == y \div 100
        B == 2 - A + A \div 4
    IN  2 * ((1461 * (y + 4716)) \div 4 + (306001 * (m + 1)) \div 10000
             + day + B) - 3049

----------------------------------------------------------------------------
(* PrayTimes: the computation of getTimes                                  *)
(*                                                                         *)
(* A time is a number of units of 1/Scale minute, or NaN.  An angle is a   *)
(* whole number of tenths of a degree; sines and cosines are whole numbers *)
(* of thousandths, computed with Bhaskara's rational approximation; hour   *)
(* angles are found to the degree, which is 4 minutes.  A Julian date is a *)
(* whole number of 1/360 of a day, which holds the halves of julian, the   *)
(* longitude shift lng / 360 and the hours of the first approximations.    *)

Hour == 60 * Scale

IsNaN(x) == x.kind = "NaN"

Plus(a, b) == IF IsNaN(a) \/ IsNaN(b) THEN NaN ELSE Num(a.v + b.v)

Minus(a, b) == IF IsNaN(a) \/ IsNaN(b) THEN NaN ELSE Num(a.v - b.v)

\* a > b of two numbers: false when one of them is NaN
Greater(a, b) == ~IsNaN(a) /\ ~IsNaN(b) /\ a.v > b.v

\* a / k, to the unit
DivBy(a, k) == IF IsNaN(a) THEN NaN ELSE Num(a.v \div k)

fix(a, mode) == IF IsNaN(a) THEN a ELSE Num(a.v % mode)

fixhour(hour) == fix(hour, 24 * Hour)

timeDiff(time1, time2) == fixhour(Minus(time2, time1))

\* Math.sin of x tenths of a degree, 0 <= x <= 1800, in thousandths
Bhaskara(x) == (400 * x * (1800 - x)) \div ((4050000 - x * (1800 - x)) \div 10)

Sin(x) ==
    LET r == x % 3600
    IN  IF r <= 1800 THEN Bhaskara(r) ELSE -Bhaskara(r - 1800)

Cos(x) == Sin(x + 900)

Abs(x) == IF x < 0 THEN -x ELSE x

\* Math.sqrt of a natural number, to the unit below
Sqrt(n) == CHOOSE r \in 0 .. n : r * r <= n /\ (r + 1) * (r + 1) > n

\* the tenths of a degree in a number of thousandths
Tenths(n) == n \div 100

\* the units of time in a number of thousandths of a minute
Units(n) == (n * Scale) \div 1000

\* sunPosition at the days of the two solstices of 2024, by the whole days
\* D since 2000-01-01 12:00: the declination and the equation of time in
\* seconds that the series of sunPosition gives at the middle of day D
SunTable ==
    (8937 :> [decl |-> 234, eqt |-> -109]) @@
    (8938 :> [decl |-> 234, eqt |-> -122]) @@
    (9120 :> [decl |-> -234, eqt |-> 116]) @@
    (9121 :> [decl |-> -234, eqt |-> 87])

\* the days before 2000-01-01 12:00, in 1/360 of a day: 360 * 2451545
J2000 == 360 * 2451545

sunPosition(jd) ==
    LET D == (jd - J2000) \div 360
    IN  IF D \in DOMAIN SunTable
        THEN [decl |-> SunTable[D].decl,
              eqt |-> (SunTable[D].eqt * Scale) \div 60]
        ELSE [decl |-> 0, eqt |-> 0]

\* times[i] /= 24: hours to 1/360 of a day
dayPortion(hours) == 15 * hours

midDay(p, time) ==
    fixhour(Num(12 * Hour - sunPosition(p.jDate + time).eqt))

\* the degrees of the hour angle whose cosine is num / den
Arccos(num, den) ==
    CHOOSE h \in 0 .. 180 :
        /\ Cos(10 * h) * den <= 1000 * num
        /\ h = 0 \/ Cos(10 * (h - 1)) * den > 1000 * num

\* the value of an expression that is computed once and used several times:
\* the element of the one-element set S
The(S) == CHOOSE x \in S : TRUE

\* the angle is in tenths of a degree or NaN; Math.acos of a number outside
\* [-1, 1] is NaN, and nothing in the try block throws.  q is the fraction
\* given to arccos, numerator and denominator.
sunAngleTime(p, angle, time, direction) ==
    LET decl == sunPosition(p.jDate + time).decl
        noon == midDay(p, time)
    IN  IF IsNaN(angle) THEN NaN
        ELSE The({ IF q[2] = 0 \/ q[1] > q[2] \/ q[1] < -q[2] THEN NaN
                   ELSE Num(noon.v + (IF direction = "ccw" THEN -1 ELSE 1)
                                         * 4 * Scale * Arccos(q[1], q[2])) :
                   q \in { <<-Sin(angle.v) * 1000 - Sin(decl) * Sin(10 * p.lat),
                             Cos(decl) * Cos(10 * p.lat)>> } })

\* arccot(num / den) in degrees: Math.atan(1 / x), of the sign of x
Arccot(num, den) ==
    LET a == CHOOSE h \in 0 .. 90 :
                 /\ Cos(10 * h) * Abs(den) <= Abs(num) * Sin(10 * h)
                 /\ h = 0 \/ Cos(10 * (h - 1)) * Abs(den)
                                > Abs(num) * Sin(10 * (h - 1))
    IN  IF (num < 0) # (den < 0) THEN -a ELSE a

\* -arccot(factor + tan(|lat - decl|)); factor is in thousandths or NaN, q is
\* the fraction given to arccot
asrAngle(p, factor, time) ==
    LET decl == sunPosition(p.jDate + time).decl
        d == Abs(10 * p.lat - decl)
    IN  IF IsNaN(factor) THEN NaN
        ELSE The({ Num(-10 * Arccot(q[1], q[2])) :
                   q \in { <<(factor.v * Cos(d)) \div 1000 + Sin(d), Cos(d)>> } })

asrTime(p, factor, time) ==
    The({ sunAngleTime(p, angle, time, "cw") :
          angle \in { asrAngle(p, factor, time) } })

asrFactor(asrParam) ==
    IF asrParam = Standard THEN Num(1000)
    ELSE IF asrParam = Hanafi THEN Num(2000)
    ELSE eval(asrParam)

\* 0.833 + 0.0347 * Math.sqrt(elevation), in thousandths of a degree
riseSetAngle(elevation) == 833 + (347 * Sqrt(elevation)) \div 10

\* eval of a setting, as an angle in tenths of a degree
EvalAngle(st) == IF IsNaN(eval(st)) THEN NaN ELSE Num(Tenths(eval(st).v))

\* eval of a setting divided by 60: minutes, as a time
EvalMinutes(st) == IF IsNaN(eval(st)) THEN NaN ELSE Num(Units(eval(st).v))

\* the first approximations of computeTimes, in hours
FirstTimes ==
    [imsak |-> 5, fajr |-> 5, sunrise |-> 6, dhuhr |-> 12,
     asr |-> 13, sunset |-> 18, maghrib |-> 18, isha |-> 18]

computePrayerTimes(p, hours) ==
    LET times == [i \in DOMAIN hours |-> dayPortion(hours[i])]
        params == p.settings
        rise == Num(Tenths(riseSetAngle(p.elv)))
    IN  [imsak |-> sunAngleTime(p, EvalAngle(params.imsak), times.imsak, "ccw"),
         fajr |-> sunAngleTime(p, EvalAngle(params.fajr), times.fajr, "ccw"),
         sunrise |-> sunAngleTime(p, rise, times.sunrise, "ccw"),
         dhuhr |-> midDay(p, times.dhuhr),
         asr |-> asrTime(p, asrFactor(params.asr), times.asr),
         sunset |-> sunAngleTime(p, rise, times.sunset, "cw"),
         maghrib |-> sunAngleTime(p, EvalAngle(params.maghrib), times.maghrib, "cw"),
         isha |-> sunAngleTime(p, EvalAngle(params.isha), times.isha, "cw")]

nightPortion(p, angle, night) ==
    LET method == p.settings.highLats
    IN  IF method = OneSeventh THEN DivBy(night, 7)
        ELSE IF method = AngleBased
             THEN (IF IsNaN(angle) \/ IsNaN(night) THEN NaN
                   ELSE Num((angle.v * night.v) \div 60000))
        ELSE DivBy(night, 2)

adjustHLTime(p, time, base, angle, night, direction) ==
    LET portion == nightPortion(p, angle, night)
        diff == IF direction = "ccw" THEN timeDiff(time, base)
                ELSE timeDiff(base, time)
    IN  IF IsNaN(time) \/ Greater(diff, portion)
        THEN (IF direction = "ccw" THEN Minus(base, portion)
              ELSE Plus(base, portion))
        ELSE time

adjustHighLats(p, times) ==
    LET params == p.settings
        nightTime == timeDiff(times.sunset, times.sunrise)
    IN  [times EXCEPT
            !.imsak = adjustHLTime(p, times.imsak, times.sunrise,
                                   eval(params.imsak), nightTime, "ccw"),
            !.fajr = adjustHLTime(p, times.fajr, times.sunrise,
                                  eval(params.fajr), nightTime, "ccw"),
            !.isha = adjustHLTime(p, times.isha, times.sunset,
                                  eval(params.isha), nightTime, "cw"),
            !.maghrib = adjustHLTime(p, times.maghrib, times.sunset,
                                     eval(params.maghrib), nightTime, "cw")]

\* variant: the longitude of tzAdjust is replaced by the latitude
tzAdjust_ByLatitude(p) == Num(p.timeZone * Hour - 4 * Scale * p.lat)

\* this.timeZone - this.lng / 15.0: lng / 15 hours are 4 minutes a degree
tzAdjust(p) == Num(p.timeZone * Hour - 4 * Scale * p.lng)

\* times[name] = times[base] - this.eval(st) / 60.0 if st is in minutes
MinutesBefore(times, name, base, st) ==
    IF isMin(st)
    THEN [times EXCEPT ![name] = Minus(times[base], EvalMinutes(st))]
    ELSE times

\* t1 .. t5 are the values of times after each statement
adjustTimes(p, times) ==
    LET params == p.settings
    IN  The({ [t5 EXCEPT !.dhuhr = Plus(t5.dhuhr, EvalMinutes(params.dhuhr))] :
          t5 \in { MinutesBefore(t4, "isha", "maghrib", params.isha) :
          t4 \in { MinutesBefore(t3, "maghrib", "sunset", params.maghrib) :
          t3 \in { MinutesBefore(t2, "imsak", "fajr", params.imsak) :
          t2 \in { IF params.highLats # None THEN adjustHighLats(p, t1) ELSE t1 :
          t1 \in { [t \in DOMAIN times |-> Plus(times[t], tzAdjust(p))]
                 } } } } } })

\* times[name] += this.offset[name] / 60
tuneTimes(p, times) ==
    [name \in DOMAIN times |-> Plus(times[name], Num(Units(1000 * p.offset[name])))]

\* NaN gives '-----', 'Float' the number, '24h' and '12h' the clock time
\* rounded to the minute
getFormattedTime(time, format) ==
    IF IsNaN(time) THEN InvalidTime
    ELSE IF format = "Float" THEN Number(time.v)
    ELSE LET t == fixhour(Num(time.v + Scale \div 2)).v
             hours == t \div Hour
             minutes == (t % Hour) \div Scale
         IN  IF format = "24h"
             THEN [kind |-> "24h", hours |-> hours, mins |-> minutes]
             ELSE [kind |-> "12h", hours |-> ((hours + 11) % 12) + 1,
                   mins |-> minutes,
                   suffix |-> IF hours < 12 THEN "am" ELSE "pm"]

modifyFormats(p, times) ==
    [name \in DOMAIN times |-> getFormattedTime(times[name], p.timeFormat)]

\* times.midnight = times.sunset + half the night to fajr or to sunrise
WithMidnight(p, times) ==
    LET end == IF p.settings.midnight = Jafari THEN times.fajr ELSE times.sunrise
        midnight == Plus(times.sunset, DivBy(timeDiff(times.sunset, end), 2))
    IN  [name \in DOMAIN times \cup {"midnight"} |->
            IF name = "midnight" THEN midnight ELSE times[name]]

\* numIterations is 1 and nothing assigns it: the loop body runs once
computeTimes(p) ==
    The({ modifyFormats(p, tuneTimes(p, t3)) :
          t3 \in { WithMidnight(p, t2) :
          t2 \in { adjustTimes(p, t1) :
          t1 \in { computePrayerTimes(p, FirstTimes) } } } })

\* the settings every instance starts with
DefaultSettings ==
    [imsak |-> Minutes(10), dhuhr |-> Minutes(0), asr |-> Standard,
     highLats |-> NightMiddle]

\* new PrayTimes(method), the static table being ms before the call
Construct(ms, method) ==
    LET calcMethod == IF method \in DOMAIN ms THEN method ELSE "MWL"
    IN  [made |-> TRUE,
         calcMethod |-> calcMethod,
         settings |-> Assign(DefaultSettings, FillDefaults(ms)[calcMethod]),
         timeFormat |-> "24h",
         offset |-> [name \in TimeNames |-> 0],
         lat |-> 0, lng |-> 0, elv |-> 0, timeZone |-> 0, jDate |-> 0]

\* variant: the elevation is assigned only when the coordinates have one
Enter_KeepElevation(p, date, coords, timezone, dst, format) ==
    [p EXCEPT
        !.lat = coords[1],
        !.lng = coords[2],
        !.elv = IF Len(coords) > 2 THEN coords[3] ELSE @,
        !.timeFormat = IF format = "null" THEN "24h" ELSE format,
        !.timeZone = timezone + (IF dst THEN 1 ELSE 0),
        !.jDate = 180 * julian(date[1], date[2], date[3]) - coords[2]]

\* the assignments getTimes makes before it calls computeTimes
Enter(p, date, coords, timezone, dst, format) ==
    [p EXCEPT
        !.lat = coords[1],
        !.lng = coords[2],
        !.elv = IF Len(coords) > 2 THEN coords[3] ELSE 0,
        !.timeFormat = IF format = "null" THEN "24h" ELSE format,
        !.timeZone = timezone + (IF dst THEN 1 ELSE 0),
        !.jDate = 180 * julian(date[1], date[2], date[3]) - coords[2]]

----------------------------------------------------------------------------
(* MawaquitApp.clipBands                                                   *)
(*                                                                         *)
(* A band is known by its minute, which stands for its label, minute and   *)
(* color; points is the length of its polygon (0: no polygon), and turf    *)
(* says what the library does with it against the country outline:         *)
(* "inside" (an intersection is returned), "outside" (intersect returns    *)
(* null), "intersectThrows", "centroidThrows".                             *)

MinPoints == 4

\* the entry pushed for a band that was clipped
Clipped(band) ==
    [geometry |-> <<"intersection", band.minute>>,
     labelPos |-> <<"centroid", band.minute>>,
     minute |-> band.minute]

\* variant: the catch block pushes nothing
ClipOne_DropOnThrow(band) ==
    IF band.points < MinPoints THEN << >>
    ELSE IF band.turf = "intersectThrows" THEN << >>
    ELSE IF band.turf = "outside" THEN << >>
    ELSE IF band.turf = "centroidThrows" THEN << >>
    ELSE <<Clipped(band)>>

\* one round of the loop over the bands: what it pushes on clippedBands
ClipOne(band) ==
    IF band.points < MinPoints THEN << >>
    ELSE IF band.turf = "intersectThrows" THEN <<band>>
    ELSE IF band.turf = "outside" THEN << >>
    ELSE IF band.turf = "centroidThrows" THEN <<band>>
    ELSE <<Clipped(band)>>

RECURSIVE ClipLoop(_)
ClipLoop(bands) ==
    IF bands = << >> THEN << >>
    ELSE ClipOne(Head(bands)) \o ClipLoop(Tail(bands))

\* the country outline can be made into one feature
HasCountryFeature(country) == country \in {"FeatureCollection", "Feature"}

clipBands(bands, country, turfLoaded) ==
    IF country = "null" \/ ~turfLoaded THEN bands
    ELSE IF ~HasCountryFeature(country) THEN bands
    ELSE ClipLoop(bands)

----------------------------------------------------------------------------
(* IsochroneGenerator *)

NewPromise == [state |-> "pending", value |-> "none", calls |-> 0]

\* a call of the resolve or reject function of promise id: the first call
\* settles the promise, later calls change nothing but are counted
Settle(pr, id, state, value) ==
    [pr EXCEPT ![id] =
        [state |-> IF @.state = "pending" THEN state ELSE @.state,
         value |-> IF @.state = "pending" THEN value ELSE @.value,
         calls |-> @.calls + 1]]

RECURSIVE SettleAll(_, _, _, _)
SettleAll(pr, ids, state, value) ==
    IF ids = {} THEN pr
    ELSE LET id == CHOOSE x \in ids : TRUE
         IN  SettleAll(Settle(pr, id, state, value), ids \ {id}, state, value)

\* constructor: initWorker either gets a worker or catches and leaves null
Init ==
    /\ worker \in {"alive", "none"}
    /\ pendingRequests = {}
    /\ requestId = 0
    /\ promise = << >>
    /\ posted = << >>
    /\ outbox = << >>
    /\ timers = {}
    /\ nReplies = 0
    /\ nCrashes = 0
    /\ lastSync = [called |-> FALSE]
    /\ methods = StaticMethods
    /\ pt = NoInstance
    /\ lastCall = NoCall
    /\ clock = 0
    /\ tasks = {}
    /\ debounced = NoWrapper
    /\ throttled = NoWrapper
    /\ wrapperCalls = << >>
    /\ funcRuns = << >>
    /\ appState = InitialState
    /\ mapManager = NewMapManager
    /\ uiManager = [init |-> "loading", isoButtonsEnabled |-> TRUE,
                    activeIsoButton |-> "none"]
    /\ running = << >>
    /\ sinceClear = FALSE

\* variant: the counter is read but not incremented
NextId_Reuse(r) == r

\* const id = ++this.requestId
NextId(r) == r + 1

\* variant: the id is taken before the worker is looked at
Generate_IdFirst(prayer, field) ==
    IF worker = "none"
    THEN /\ requestId < MaxRequests
         /\ requestId' = NextId(requestId)
         /\ lastSync' = [called |-> TRUE, prayer |-> prayer, field |-> field,
                         result |-> generateSync(prayer, field),
                         solves |-> solves(field)]
         /\ UNCHANGED <<worker, pendingRequests, promise, posted,
                        outbox, timers, nReplies, nCrashes>>
         /\ methods' = FillDefaults(methods)
         /\ UNCHANGED <<pt, lastCall, pageVars>>
    ELSE /\ requestId < MaxRequests
         /\ LET id == NextId(requestId)
            IN  /\ requestId' = id
                /\ promise' = (id :> NewPromise) @@ promise
                /\ pendingRequests' = pendingRequests \cup {id}
                /\ posted' = Append(posted, id)
                /\ timers' = timers \cup {id}
         /\ UNCHANGED <<worker, outbox, nReplies, nCrashes, lastSync>>
         /\ UNCHANGED <<engineVars, pageVars>>

Generate(prayer, field) ==
    IF worker = "none"
    THEN /\ UNCHANGED <<worker, pendingRequests, requestId, promise, posted,
                        outbox, timers, nReplies, nCrashes>>
         /\ UNCHANGED <<pt, lastCall, pageVars>>
         /\ methods' = FillDefaults(methods)
         /\ lastSync' = [called |-> TRUE, prayer |-> prayer, field |-> field,
                         result |-> generateSync(prayer, field),
                         solves |-> solves(field)]
    ELSE /\ requestId < MaxRequests
         /\ LET id == NextId(requestId)
            IN  /\ requestId' = id
                /\ promise' = (id :> NewPromise) @@ promise
                /\ pendingRequests' = pendingRequests \cup {id}
                /\ posted' = Append(posted, id)
                /\ timers' = timers \cup {id}
         /\ UNCHANGED <<worker, outbox, nReplies, nCrashes, lastSync>>
         /\ UNCHANGED <<engineVars, pageVars>>

\* The worker script is not part of the sources.  It may answer any message
\* it was given, any number of times, with a result or with an error.
WorkerReply(id, type, error) ==
    /\ worker = "alive"
    /\ nReplies < MaxReplies
    /\ \E k \in 1 .. Len(posted) : posted[k] = id
    /\ outbox' = Append(outbox, [id |-> id, type |-> type, error |-> error])
    /\ nReplies' = nReplies + 1
    /\ UNCHANGED <<worker, pendingRequests, requestId, promise, posted,
                   timers, nCrashes, lastSync>>
    /\ UNCHANGED <<engineVars, pageVars>>

\* the settling half of handleWorkerMessage
Reply(e) ==
    IF e.type = "error" \/ e.error # "none"
    THEN Settle(promise, e.id, "rejected",
                IF e.error # "none" THEN e.error ELSE "Worker error")
    ELSE Settle(promise, e.id, "resolved", "result")

\* variant: the entry is not deleted from pendingRequests
HandleWorkerMessage_NoDelete ==
    /\ outbox # << >>
    /\ LET e == Head(outbox)
           pending == e.id \in pendingRequests
       IN  /\ outbox' = Tail(outbox)
           /\ IF ~pending
              THEN UNCHANGED <<pendingRequests, promise>>
              ELSE /\ UNCHANGED pendingRequests
                   /\ promise' = Reply(e)
    /\ UNCHANGED <<worker, requestId, posted, timers, nReplies, nCrashes,
                   lastSync>>
    /\ UNCHANGED <<engineVars, pageVars>>

\* variant: the callbacks of an id are used whether or not it is pending
HandleWorkerMessage_NoGuard ==
    /\ outbox # << >>
    /\ LET e == Head(outbox)
           pending == e.id \in pendingRequests
       IN  /\ outbox' = Tail(outbox)
           /\ pendingRequests' = pendingRequests \ {e.id}
           /\ promise' = Reply(e)
    /\ UNCHANGED <<worker, requestId, posted, timers, nReplies, nCrashes,
                   lastSync>>
    /\ UNCHANGED <<engineVars, pageVars>>

HandleWorkerMessage ==
    /\ outbox # << >>
    /\ LET e == Head(outbox)
           pending == e.id \in pendingRequests
       IN  /\ outbox' = Tail(outbox)
           /\ IF ~pending
              THEN UNCHANGED <<pendingRequests, promise>>
              ELSE /\ pendingRequests' = pendingRequests \ {e.id}
                   /\ promise' = Reply(e)
    /\ UNCHANGED <<worker, requestId, posted, timers, nReplies, nCrashes,
                   lastSync>>
    /\ UNCHANGED <<engineVars, pageVars>>

\* variant: the Map is not cleared after the promises are rejected
HandleWorkerError_NoClear ==
    /\ worker = "alive"
    /\ nCrashes < MaxCrashes
    /\ nCrashes' = nCrashes + 1
    /\ promise' = SettleAll(promise, pendingRequests, "rejected", "Worker crashed")
    /\ UNCHANGED pendingRequests
    /\ UNCHANGED <<worker, requestId, posted, outbox, timers, nReplies, lastSync>>
    /\ UNCHANGED <<engineVars, pageVars>>

HandleWorkerError ==
    /\ worker = "alive"
    /\ nCrashes < MaxCrashes
    /\ nCrashes' = nCrashes + 1
    /\ promise' = SettleAll(promise, pendingRequests, "rejected", "Worker crashed")
    /\ pendingRequests' = {}
    /\ UNCHANGED <<worker, requestId, posted, outbox, timers, nReplies, lastSync>>
    /\ UNCHANGED <<engineVars, pageVars>>

\* variant: the test of pendingRequests.has(id) is inverted
Timeout_Inverted(id) ==
    /\ id \in timers
    /\ timers' = timers \ {id}
    /\ IF id \notin pendingRequests
       THEN /\ pendingRequests' = pendingRequests \ {id}
            /\ promise' = Settle(promise, id, "rejected",
                                 "Isochrone calculation timed out")
       ELSE UNCHANGED <<pendingRequests, promise>>
    /\ UNCHANGED <<worker, requestId, posted, outbox, nReplies, nCrashes, lastSync>>
    /\ UNCHANGED <<engineVars, pageVars>>

\* the callback given to setTimeout by generate() for request id
Timeout(id) ==
    /\ id \in timers
    /\ timers' = timers \ {id}
    /\ IF id \in pendingRequests
       THEN /\ pendingRequests' = pendingRequests \ {id}
            /\ promise' = Settle(promise, id, "rejected",
                                 "Isochrone calculation timed out")
       ELSE UNCHANGED <<pendingRequests, promise>>
    /\ UNCHANGED <<worker, requestId, posted, outbox, nReplies, nCrashes, lastSync>>
    /\ UNCHANGED <<engineVars, pageVars>>

\* Worker.terminate() empties the message queue of the port the replies come
\* in on: replies not yet dispatched are never dispatched.
\* variant: terminate() also cancels the timers of the requests
Terminate_ClearTimers ==
    /\ worker # "none"
    /\ worker' = "none"
    /\ outbox' = << >>
    /\ timers' = {}
    /\ UNCHANGED <<pendingRequests, requestId, promise, posted,
                   nReplies, nCrashes, lastSync>>
    /\ UNCHANGED <<engineVars, pageVars>>

Terminate ==
    /\ worker # "none"
    /\ worker' = "none"
    /\ outbox' = << >>
    /\ UNCHANGED <<pendingRequests, requestId, promise, posted, timers,
                   nReplies, nCrashes, lastSync>>
    /\ UNCHANGED <<engineVars, pageVars>>

Next ==
    \/ \E prayer \in FewPrayers, field \in FewFields : Generate(prayer, field)
    \/ \E id \in 1 .. MaxRequests, type \in ReplyTypes, error \in ReplyErrors :
          WorkerReply(id, type, error)
    \/ HandleWorkerMessage
    \/ HandleWorkerError
    \/ \E id \in 1 .. MaxRequests : Timeout(id)
    \/ Terminate

Spec == Init /\ [][Next]_vars

\* the steps of Next, the replies being those without an error text
FairNext ==
    \/ \E prayer \in FewPrayers, field \in FewFields : Generate(prayer, field)
    \/ \E id \in 1 .. MaxRequests, type \in ReplyTypes :
          WorkerReply(id, type, "none")
    \/ HandleWorkerMessage
    \/ HandleWorkerError
    \/ \E id \in 1 .. MaxRequests : Timeout(id)
    \/ Terminate

\* timers armed with setTimeout run: the event loop is never blocked for good
FairSpec ==
    Init /\ [][FairNext]_vars /\ \A id \in 1 .. MaxRequests : WF_vars(Timeout(id))

\* the fallback alone: no worker could be made, every request is answered
\* by generateSync
InitSync == Init /\ worker = "none"

\* one request to a fresh generator, over all prayers and fields
NextSync ==
    /\ ~lastSync.called
    /\ \E prayer \in Prayers, field \in Fields : Generate(prayer, field)

SyncSpec == InitSync /\ [][NextSync]_vars

----------------------------------------------------------------------------
(* debounce and throttle (utils.js)                                        *)
(*                                                                         *)
(* Time is counted in ticks.  A callback given to setTimeout is a task:    *)
(* it runs when the event loop takes it, not before its delay has passed   *)
(* and possibly later.  The id of a timer is the number of the call that   *)
(* made it; 0 stands for undefined.                                        *)

MaxTime == 5
MaxWait == 2
MaxWrapperCalls == 3

\* the arguments a wrapper is called with
WrapperArgs == {"a", "b"}

Tick ==
    /\ clock < MaxTime
    /\ clock' = clock + 1
    /\ UNCHANGED <<tasks, debounced, throttled, wrapperCalls, funcRuns>>
    /\ UNCHANGED <<generatorVars, engineVars, appVars>>

\* debounce(func, wait): timeout is declared and not set
Debounce(wait) ==
    /\ ~debounced.made
    /\ debounced' = [made |-> TRUE, wait |-> wait, timeout |-> 0]
    /\ UNCHANGED <<clock, tasks, throttled, wrapperCalls, funcRuns>>
    /\ UNCHANGED <<generatorVars, engineVars, appVars>>

\* clearTimeout(id)
clearTimeout(pending, id) == { t \in pending : t.id # id }

\* variant: the timer of the call before is left to run
debounceExecutedFunction_NoClear(args) ==
    /\ debounced.made
    /\ Len(wrapperCalls) < MaxWrapperCalls
    /\ clock + debounced.wait <= MaxTime
    /\ LET id == Len(wrapperCalls) + 1
       IN  /\ tasks' = tasks
                         \cup {[id |-> id, due |-> clock + debounced.wait,
                                args |-> args]}
           /\ debounced' = [debounced EXCEPT !.timeout = id]
    /\ wrapperCalls' = Append(wrapperCalls, [at |-> clock, args |-> args])
    /\ UNCHANGED <<clock, throttled, funcRuns>>
    /\ UNCHANGED <<generatorVars, engineVars, appVars>>

\* a call of the function made by debounce
debounceExecutedFunction(args) ==
    /\ debounced.made
    /\ Len(wrapperCalls) < MaxWrapperCalls
    /\ clock + debounced.wait <= MaxTime
    /\ LET id == Len(wrapperCalls) + 1
       IN  /\ tasks' = clearTimeout(tasks, debounced.timeout)
                         \cup {[id |-> id, due |-> clock + debounced.wait,
                                args |-> args]}
           /\ debounced' = [debounced EXCEPT !.timeout = id]
    /\ wrapperCalls' = Append(wrapperCalls, [at |-> clock, args |-> args])
    /\ UNCHANGED <<clock, throttled, funcRuns>>
    /\ UNCHANGED <<generatorVars, engineVars, appVars>>

\* the callback later of a call of the debounced function
later(task) ==
    /\ debounced.made
    /\ task \in tasks
    /\ task.due <= clock
    /\ tasks' = clearTimeout(tasks \ {task}, debounced.timeout)
    /\ funcRuns' = Append(funcRuns, [at |-> clock, args |-> task.args,
                                     call |-> task.id,
                                     calls |-> Len(wrapperCalls)])
    /\ UNCHANGED <<clock, debounced, throttled, wrapperCalls>>
    /\ UNCHANGED <<generatorVars, engineVars, appVars>>

NextDebounce ==
    \/ \E wait \in 1 .. MaxWait : Debounce(wait)
    \/ \E args \in WrapperArgs : debounceExecutedFunction(args)
    \/ \E task \in tasks : later(task)
    \/ Tick

\* time passes, and a task whose delay has passed is run in the end
DebounceSpec ==
    /\ Init
    /\ [][NextDebounce]_vars
    /\ WF_vars(Tick)
    /\ WF_vars(\E task \in tasks : later(task))

\* throttle(func, limit): inThrottle is declared and not set
Throttle(limit) ==
    /\ ~throttled.made
    /\ throttled' = [made |-> TRUE, limit |-> limit, inThrottle |-> FALSE]
    /\ UNCHANGED <<clock, tasks, debounced, wrapperCalls, funcRuns>>
    /\ UNCHANGED <<generatorVars, engineVars, appVars>>

\* variant: inThrottle is not set by a run
throttleExecutedFunction_NoFlag(args) ==
    /\ throttled.made
    /\ Len(wrapperCalls) < MaxWrapperCalls
    /\ clock + throttled.limit <= MaxTime
    /\ wrapperCalls' = Append(wrapperCalls, [at |-> clock, args |-> args])
    /\ IF ~throttled.inThrottle
       THEN /\ funcRuns' = Append(funcRuns,
                                  [at |-> clock, args |-> args,
                                   call |-> Len(wrapperCalls) + 1,
                                   calls |-> Len(wrapperCalls) + 1])
            /\ tasks' = tasks \cup {[id |-> Len(wrapperCalls) + 1,
                                     due |-> clock + throttled.limit,
                                     args |-> args]}
            /\ UNCHANGED throttled
       ELSE UNCHANGED <<funcRuns, throttled, tasks>>
    /\ UNCHANGED <<clock, debounced>>
    /\ UNCHANGED <<generatorVars, engineVars, appVars>>

\* a call of the function made by throttle
throttleExecutedFunction(args) ==
    /\ throttled.made
    /\ Len(wrapperCalls) < MaxWrapperCalls
    /\ clock + throttled.limit <= MaxTime
    /\ wrapperCalls' = Append(wrapperCalls, [at |-> clock, args |-> args])
    /\ IF ~throttled.inThrottle
       THEN /\ funcRuns' = Append(funcRuns,
                                  [at |-> clock, args |-> args,
                                   call |-> Len(wrapperCalls) + 1,
                                   calls |-> Len(wrapperCalls) + 1])
            /\ tasks' = tasks \cup {[id |-> Len(wrapperCalls) + 1,
                                     due |-> clock + throttled.limit,
                                     args |-> args]}
            /\ throttled' = [throttled EXCEPT !.inThrottle = TRUE]
       ELSE UNCHANGED <<funcRuns, throttled, tasks>>
    /\ UNCHANGED <<clock, debounced>>
    /\ UNCHANGED <<generatorVars, engineVars, appVars>>

\* the callback given to setTimeout by a run: inThrottle = false
release(task) ==
    /\ throttled.made
    /\ task \in tasks
    /\ task.due <= clock
    /\ tasks' = tasks \ {task}
    /\ throttled' = [throttled EXCEPT !.inThrottle = FALSE]
    /\ UNCHANGED <<clock, debounced, wrapperCalls, funcRuns>>
    /\ UNCHANGED <<generatorVars, engineVars, appVars>>

NextThrottle ==
    \/ \E limit \in 1 .. MaxWait : Throttle(limit)
    \/ \E args \in WrapperArgs : throttleExecutedFunction(args)
    \/ \E task \in tasks : release(task)
    \/ Tick

ThrottleSpec == Init /\ [][NextThrottle]_vars

----------------------------------------------------------------------------
(* MawaquitApp: country changes and isochrone requests                     *)
(*                                                                         *)
(* An async handler runs to its await in one step and from its await to    *)
(* its end in another; in between it is an entry of running, which holds   *)
(* the values of its locals, and any other handler may run.  The buttons   *)
(* are enabled in the page as loaded: init() disables them once the        *)
(* countries are there.  The bands of a request are kept with the prayer,  *)
(* the bounds and the time zone they were computed from and with the       *)
(* country whose outline they were given to clipBands with ("none": no     *)
(* outline).                                                               *)

MaxRunning == 2

CountryNames == {"Algeria", "Brunei"}

\* the prayers that have an isochrone button
IsoButtons == {"fajr", "isha"}

MinLayerPoints == 3

\* the bands generate answers with: a rectangle of five points with its
\* label, which is inside the country or such that turf throws on it
AppBands ==
    { <<[minute |-> 1, points |-> 5, turf |-> t, label |-> TRUE]>> :
        t \in {"inside", "intersectThrows"} }

\* the rest of init(), after await dataManager.loadCountries()
CountriesLoaded(ok) ==
    /\ uiManager.init = "loading"
    /\ uiManager' =
          IF ok
          THEN [uiManager EXCEPT !.init = "ready", !.isoButtonsEnabled = FALSE]
          ELSE [uiManager EXCEPT !.init = "failed"]
    /\ UNCHANGED <<appState, mapManager, running, sinceClear>>
    /\ UNCHANGED <<generatorVars, engineVars, utilVars>>

\* variant: lastClippedBands is kept
clearState_KeepBands(st) == [st EXCEPT !.activeIsochrone = "none"]

\* onClearIsochrones, on this.state, on mapManager and on uiManager
clearState(st) ==
    [st EXCEPT !.activeIsochrone = "none", !.lastClippedBands = NoBands]

clearIsochrones(map) ==
    [map EXCEPT !.isochroneLayers = << >>, !.isochroneLabels = << >>,
                !.drawnFrom = NoBands]

setActiveIsoButton(ui, prayer) == [ui EXCEPT !.activeIsoButton = prayer]

\* the fields of this.state that say which country is loaded
StateOfCountry(st) ==
    [currentCountry |-> st.currentCountry,
     currentTimezone |-> st.currentTimezone,
     countryData |-> st.countryData]

\* onCountryChange up to await dataManager.loadCountryData(...); the names
\* of the select are those of the countries loaded, and "" for none, so
\* that getCountryByName finds every name that is not ""
onCountryChange(countryName) ==
    /\ uiManager.init = "ready"
    /\ IF countryName = ""
       THEN UNCHANGED <<appState, running>>
       ELSE /\ Len(running) < MaxRunning
            /\ appState' = [appState EXCEPT !.currentCountry = countryName,
                                            !.currentTimezone = countryName]
            /\ running' = Append(running,
                                 [op |-> "country", country |-> countryName])
    /\ UNCHANGED <<mapManager, uiManager, sinceClear>>

\* a change of the select
OnCountryChange(countryName) ==
    /\ onCountryChange(countryName)
    /\ UNCHANGED <<generatorVars, engineVars, utilVars>>

\* a change of the select while no other handler is waiting, with a note
\* of the call and of what the state said when it was made
CountryChange(countryName) ==
    /\ running = << >>
    /\ onCountryChange(countryName)
    /\ lastCall' = [op |-> "onCountryChange", args |-> countryName,
                    before |-> StateOfCountry(appState)]
    /\ UNCHANGED <<generatorVars, methods, pt, utilVars>>

\* running without its entry i
Without(i) == SubSeq(running, 1, i - 1) \o SubSeq(running, i + 1, Len(running))

\* onCountryChange from the await on: the data has the outline or not
CountryData(i, outline) ==
    /\ i \in 1 .. Len(running)
    /\ running[i].op = "country"
    /\ running' = Without(i)
    /\ LET data == [country |-> running[i].country, outline |-> outline]
       IN  IF ~outline
           THEN /\ appState' = [appState EXCEPT !.countryData = data]
                /\ uiManager' = [uiManager EXCEPT !.isoButtonsEnabled = FALSE]
                /\ UNCHANGED <<mapManager, sinceClear>>
           ELSE /\ appState' =
                      clearState([appState EXCEPT !.countryData = data])
                /\ mapManager' =
                      clearIsochrones([mapManager EXCEPT
                                          !.bounds = running[i].country])
                /\ uiManager' =
                      [setActiveIsoButton(uiManager, "none")
                          EXCEPT !.isoButtonsEnabled = TRUE]
                /\ sinceClear' = TRUE
    /\ UNCHANGED <<generatorVars, engineVars, utilVars>>

\* the locals of onIsochroneRequest at its await, which is the call of
\* isochroneGenerator.generate: the arguments and the state they came from
Request(prayer) ==
    [op |-> "isochrone", prayer |-> prayer, bounds |-> mapManager.bounds,
     timezone |-> appState.currentTimezone,
     country |-> appState.currentCountry]

\* variant: generate is called without a look at the country and the bounds
OnIsochroneRequest_NoChecks(prayer) ==
    /\ Len(running) < MaxRunning
    /\ uiManager' = setActiveIsoButton(uiManager, prayer)
    /\ running' = Append(running, Request(prayer))
    /\ sinceClear' = FALSE
    /\ UNCHANGED <<appState, mapManager>>
    /\ UNCHANGED <<generatorVars, engineVars, utilVars>>

\* onIsochroneRequest up to await isochroneGenerator.generate(...)
OnIsochroneRequest(prayer) ==
    /\ IF appState.currentCountry = "none"
       THEN UNCHANGED <<uiManager, running>>
       ELSE IF mapManager.bounds = "none"
       THEN /\ uiManager' = setActiveIsoButton(uiManager, "none")
            /\ UNCHANGED running
       ELSE /\ Len(running) < MaxRunning
            /\ uiManager' = setActiveIsoButton(uiManager, prayer)
            /\ running' = Append(running, Request(prayer))
    /\ sinceClear' = FALSE
    /\ UNCHANGED <<appState, mapManager>>
    /\ UNCHANGED <<generatorVars, engineVars, utilVars>>

\* a click on the button of a prayer; a disabled button has no click event
IsoButtonClick(prayer) ==
    /\ uiManager.isoButtonsEnabled
    /\ OnIsochroneRequest(prayer)

\* onDateChange: the isochrones displayed are asked again
OnDateChange ==
    IF appState.activeIsochrone # "none"
    THEN OnIsochroneRequest(appState.activeIsochrone)
    ELSE UNCHANGED vars

\* clipBands against this.state.countryData[0], which is a Feature when it
\* is there, with turf loaded
Clip(request, data, bands) ==
    [prayer |-> request.prayer, bounds |-> request.bounds,
     timezone |-> request.timezone,
     clip |-> IF data.outline THEN data.country ELSE "none",
     bands |-> clipBands(bands, IF data.outline THEN "Feature" ELSE "null",
                         TRUE)]

\* band.polygon && band.polygon.length >= 3: an entry made by clipBands has
\* a geometry and no polygon
HasPolygon(band) == "points" \in DOMAIN band /\ band.points >= MinLayerPoints

\* the L.polygon made of a band, and the L.marker of its label
Polygon(band) == [latLngs |-> <<band.minute, band.points>>]

LabelMarker(band) == [html |-> band.minute]

\* what bands.forEach pushes on isochroneLayers and on isochroneLabels
RECURSIVE Polygons(_)
Polygons(bands) ==
    IF bands = << >> THEN << >>
    ELSE (IF HasPolygon(Head(bands)) THEN <<Polygon(Head(bands))>> ELSE << >>)
            \o Polygons(Tail(bands))

RECURSIVE Labels(_)
Labels(bands) ==
    IF bands = << >> THEN << >>
    ELSE (IF HasPolygon(Head(bands)) /\ Head(bands).label
          THEN <<LabelMarker(Head(bands))>> ELSE << >>)
            \o Labels(Tail(bands))

\* variant: the layers of the call before are left in the lists
drawIsochrones_NoClear(map, bands) ==
    [map EXCEPT !.isochroneLayers = map.isochroneLayers \o Polygons(bands),
                !.isochroneLabels = map.isochroneLabels \o Labels(bands)]

\* drawIsochrones: a layer of the map is a layer of the lists, added to the
\* map when it is pushed and removed from it by clearIsochrones
drawIsochrones(map, bands) ==
    LET cleared == clearIsochrones(map)
    IN  [cleared EXCEPT
            !.isochroneLayers = cleared.isochroneLayers \o Polygons(bands),
            !.isochroneLabels = cleared.isochroneLabels \o Labels(bands)]

\* onIsochroneRequest from the await on: generate gave bands, or it gave an
\* error or rejected
Generated(i, outcome, bands) ==
    /\ i \in 1 .. Len(running)
    /\ running[i].op = "isochrone"
    /\ running' = Without(i)
    /\ IF outcome = "bands"
       THEN LET clippedBands == Clip(running[i], appState.countryData, bands)
                drawn == drawIsochrones(mapManager, clippedBands.bands)
            IN  /\ mapManager' =
                      [drawn EXCEPT !.drawnFrom =
                          IF drawn.isochroneLayers = << >> THEN NoBands
                          ELSE clippedBands]
                /\ appState' = [appState EXCEPT
                                   !.activeIsochrone = running[i].prayer,
                                   !.lastClippedBands = clippedBands]
                /\ UNCHANGED uiManager
       ELSE /\ uiManager' = setActiveIsoButton(uiManager, "none")
            /\ UNCHANGED <<appState, mapManager>>
    /\ UNCHANGED sinceClear
    /\ UNCHANGED <<generatorVars, engineVars, utilVars>>

\* a click on the clear button
OnClearIsochrones ==
    /\ mapManager' = clearIsochrones(mapManager)
    /\ appState' = clearState(appState)
    /\ uiManager' = setActiveIsoButton(uiManager, "none")
    /\ sinceClear' = TRUE
    /\ UNCHANGED running
    /\ UNCHANGED <<generatorVars, engineVars, utilVars>>

NextApp ==
    \/ \E ok \in BOOLEAN : CountriesLoaded(ok)
    \/ \E countryName \in CountryNames \cup {""} : OnCountryChange(countryName)
    \/ \E i \in 1 .. MaxRunning, outline \in BOOLEAN : CountryData(i, outline)
    \/ \E prayer \in IsoButtons : IsoButtonClick(prayer)
    \/ OnDateChange
    \/ \E i \in 1 .. MaxRunning, outcome \in {"bands", "error"},
          bands \in AppBands : Generated(i, outcome, bands)
    \/ OnClearIsochrones

AppSpec == Init /\ [][NextApp]_vars

\* the country changes, one at a time
NextCountry ==
    \/ \E ok \in BOOLEAN : CountriesLoaded(ok)
    \/ \E countryName \in CountryNames \cup {""} : CountryChange(countryName)
    \/ \E i \in 1 .. MaxRunning, outline \in BOOLEAN : CountryData(i, outline)

CountrySpec == Init /\ [][NextCountry]_vars

----------------------------------------------------------------------------
(* Numbers in binary floating point                                        *)
(*                                                                         *)
(* A JavaScript number is a binary floating-point number: n * 2^e with a   *)
(* significand n of limited length, and the result of every operation is   *)
(* the nearest such number, the even one of two equally near.  The         *)
(* significand has 53 bits in the program and Precision bits here.  The    *)
(* record is kept with n odd, or n = 0 and e = 0, so that equal numbers    *)
(* are equal records.                                                      *)

Precision == 6

RECURSIVE Pow2(_)
Pow2(k) == IF k = 0 THEN 1 ELSE 2 * Pow2(k - 1)

RECURSIVE Float(_, _)
Float(n, e) ==
    IF n = 0 THEN [kind |-> "number", n |-> 0, e |-> 0]
    ELSE IF n % 2 = 0 THEN Float(n \div 2, e + 1)
    ELSE [kind |-> "number", n |-> n, e |-> e]

\* the number x as the fraction Numer(x) / Denom(x)
Numer(x) == IF x.e >= 0 THEN x.n * Pow2(x.e) ELSE x.n

Denom(x) == IF x.e >= 0 THEN 1 ELSE Pow2(-x.e)

\* the nearest whole number to a / d, the even one of two equally near
NearestEven(a, d) ==
    LET q == a \div d
        r == a % d
    IN  IF 2 * r > d \/ (2 * r = d /\ q % 2 = 1) THEN q + 1 ELSE q

\* the nearest number of Precision bits to (a / d) * 2^e, for a > 0, d > 0
RECURSIVE RoundAbs(_, _, _, _)
RoundAbs(sign, a, d, e) ==
    IF a >= Pow2(Precision) * d THEN RoundAbs(sign, a, 2 * d, e + 1)
    ELSE IF a < Pow2(Precision - 1) * d THEN RoundAbs(sign, 2 * a, d, e - 1)
    ELSE Float(sign * NearestEven(a, d), e)

\* the nearest number of Precision bits to the fraction a / d, d > 0
Round(a, d) ==
    IF a = 0 THEN Float(0, 0)
    ELSE IF a < 0 THEN RoundAbs(-1, -a, d, 0)
    ELSE RoundAbs(1, a, d, 0)

\* x / y for y > 0, x * y, x - y, x + y, x < y and Math.floor(x)
Quot(x, y) == Round(Numer(x) * Denom(y), Denom(x) * Numer(y))

Prod(x, y) == Round(Numer(x) * Numer(y), Denom(x) * Denom(y))

Diff(x, y) ==
    Round(Numer(x) * Denom(y) - Numer(y) * Denom(x), Denom(x) * Denom(y))

Sum(x, y) ==
    Round(Numer(x) * Denom(y) + Numer(y) * Denom(x), Denom(x) * Denom(y))

Less(x, y) == Numer(x) * Denom(y) < Numer(y) * Denom(x)

MathFloor(x) == Float(Numer(x) \div Denom(x), 0)

\* PrayTimes.fix on these numbers, as written
fixFloat(a, mode) ==
    IF IsNaN(a) THEN a
    ELSE LET r == The({ Diff(a, Prod(mode, MathFloor(Quot(a, mode)))) })
         IN  IF Less(r, Float(0, 0)) THEN Sum(r, mode) ELSE r

fixangleFloat(angle) == fixFloat(angle, Float(360, 0))

fixhourFloat(hour) == fixFloat(hour, Float(24, 0))

----------------------------------------------------------------------------
(* Calls of the pure functions of the engine and of the application *)

FirstYear == 1899
LastYear == 2101
MaxChars == 4
MaxClipBands == 3

IsLeap(y) == y % 4 = 0 /\ (y % 100 # 0 \/ y % 400 = 0)

MonthLen(y, m) ==
    IF m = 2 THEN (IF IsLeap(y) THEN 29 ELSE 28)
    ELSE IF m \in {4, 6, 9, 11} THEN 30 ELSE 31

\* the valid Gregorian dates of the years FirstYear .. LastYear
Dates ==
    { d \in (FirstYear .. LastYear) \X (1 .. 12) \X (1 .. 31) :
        d[3] <= MonthLen(d[1], d[2]) }

\* the strings of at most MaxChars characters over a few characters, the
\* numbers and strings found in the params of the methods, and a few more
EvalChars == {"9", "0", ".", "-", "+", " ", "m"}

EvalInputs ==
    { Str(s) : s \in UNION { [1 .. n -> EvalChars] : n \in 0 .. MaxChars } }
        \cup { StaticMethods[m][k] :
                 m \in DOMAIN StaticMethods, k \in {"fajr", "isha"} }
        \cup { Minutes(0), Minutes(10), Standard, Num(0), Num(-4000), Num(833) }

ClipBandKinds ==
    { [points |-> 3, turf |-> "inside"] }
        \cup { [points |-> 5, turf |-> t] :
                 t \in {"inside", "outside", "intersectThrows", "centroidThrows"} }

\* lists of at most MaxClipBands bands, numbered by their minute
ClipInputs ==
    UNION { { [i \in 1 .. n |->
                  [minute |-> i, points |-> ks[i].points, turf |-> ks[i].turf]] :
              ks \in [1 .. n -> ClipBandKinds] } : n \in 0 .. MaxClipBands }

Countries == {"null", "FeatureCollection", "EmptyCollection", "Feature", "Geometry"}

Julian(date) ==
    /\ lastCall' = [op |-> "julian", args |-> date,
                    result |-> julian(date[1], date[2], date[3])]
    /\ UNCHANGED <<generatorVars, methods, pt, pageVars>>

Eval(st) ==
    /\ lastCall' = [op |-> "eval", args |-> st, result |-> eval(st)]
    /\ UNCHANGED <<generatorVars, methods, pt, pageVars>>

ClipBands(bands, country, turfLoaded) ==
    /\ lastCall' = [op |-> "clipBands", args |-> bands, country |-> country,
                    turfLoaded |-> turfLoaded,
                    result |-> clipBands(bands, country, turfLoaded)]
    /\ UNCHANGED <<generatorVars, methods, pt, pageVars>>

\* one call of julian, over all dates
NextJulian == lastCall = NoCall /\ \E date \in Dates : Julian(date)

JulianSpec == Init /\ [][NextJulian]_vars

\* one call of eval, over all inputs
NextEval == lastCall = NoCall /\ \E st \in EvalInputs : Eval(st)

EvalSpec == Init /\ [][NextEval]_vars

\* one call of clipBands, over all lists of bands and outlines
NextClip ==
    /\ lastCall = NoCall
    /\ \E bands \in ClipInputs, country \in Countries, turfLoaded \in BOOLEAN :
          ClipBands(bands, country, turfLoaded)

ClipSpec == Init /\ [][NextClip]_vars

MaxShift == 5

\* the finite numbers of Precision bits between 2^-MaxShift and 2^MaxShift
\* times their significand, of both signs, and NaN
FixInputs ==
    { Float(n, e) : n \in -(Pow2(Precision) - 1) .. (Pow2(Precision) - 1),
                    e \in -MaxShift .. MaxShift } \cup {NaN}

Fixangle(angle) ==
    /\ lastCall' = [op |-> "fixangle", args |-> angle,
                    result |-> fixangleFloat(angle)]
    /\ UNCHANGED <<generatorVars, methods, pt, pageVars>>

Fixhour(hour) ==
    /\ lastCall' = [op |-> "fixhour", args |-> hour,
                    result |-> fixhourFloat(hour)]
    /\ UNCHANGED <<generatorVars, methods, pt, pageVars>>

\* one call of fixangle or of fixhour, over all inputs
NextFix ==
    /\ lastCall = NoCall
    /\ \/ \E angle \in FixInputs : Fixangle(angle)
       \/ \E hour \in FixInputs : Fixhour(hour)

FixSpec == Init /\ [][NextFix]_vars

MaxDrawBands == 2

\* the bands given to drawIsochrones: an entry made by clipBands, or a band
\* with a polygon of some length (0: none), labelled or not
DrawBandKinds ==
    {[clipped |-> TRUE, points |-> 0, label |-> TRUE]}
        \cup { [clipped |-> FALSE, points |-> n, label |-> l] :
                 n \in {0, 2, 3, 5}, l \in BOOLEAN }

\* lists of at most MaxDrawBands bands, numbered by their minute
DrawInputs ==
    UNION { { [i \in 1 .. n |->
                  IF ks[i].clipped
                  THEN Clipped([minute |-> i])
                  ELSE [minute |-> i, points |-> ks[i].points,
                        label |-> ks[i].label]] :
              ks \in [1 .. n -> DrawBandKinds] } : n \in 0 .. MaxDrawBands }

\* calls of the two methods of the map manager, one after the other
DrawIsochrones(bands) ==
    /\ mapManager' = drawIsochrones(mapManager, bands)
    /\ lastCall' = [op |-> "drawIsochrones", args |-> bands]
    /\ UNCHANGED <<appState, uiManager, running, sinceClear>>
    /\ UNCHANGED <<generatorVars, methods, pt, utilVars>>

ClearIsochrones ==
    /\ mapManager' = clearIsochrones(mapManager)
    /\ lastCall' = [op |-> "clearIsochrones", args |-> << >>]
    /\ UNCHANGED <<appState, uiManager, running, sinceClear>>
    /\ UNCHANGED <<generatorVars, methods, pt, utilVars>>

NextDraw ==
    \/ \E bands \in DrawInputs : DrawIsochrones(bands)
    \/ ClearIsochrones

DrawSpec == Init /\ [][NextDraw]_vars

----------------------------------------------------------------------------
(* The sampling loops of generateSync, round by round                      *)
(*                                                                         *)
(* A number is the fraction <<a, d>> in lowest terms, d > 0.  Every        *)
(* operation of the loops gives the nearest binary floating-point number   *)
(* of Precision bits to its result; with exact set it gives the result     *)
(* itself.  lastCall holds the call in progress: its arguments and its     *)
(* locals lat and lon, at the test of the latitude loop (at = "lat") or    *)
(* at the test of the longitude loop (at = "lon"), the number of points    *)
(* visited, and whether a point on the upper edge of each axis was among   *)
(* them.                                                                   *)

MaxVisits == 122

RECURSIVE Gcd(_, _)
Gcd(a, b) == IF b = 0 THEN a ELSE Gcd(b, a % b)

Frac(a, d) ==
    LET g == Gcd(IF a < 0 THEN -a ELSE a, d)
    IN  <<a \div g, d \div g>>

\* the result a / d of an operation as the program gets it
Arith(a, d, exact) ==
    IF exact THEN Frac(a, d)
    ELSE The({ <<Numer(f), Denom(f)>> : f \in {Round(a, d)} })

\* (hi - lo) / 10
StepOf(lo, hi, exact) ==
    The({ Arith(diff[1], diff[2] * GridSteps, exact) :
            diff \in {Arith(hi[1] * lo[2] - lo[1] * hi[2], hi[2] * lo[2],
                            exact)} })

\* x += step
Advance(x, step, exact) ==
    Arith(x[1] * step[2] + step[1] * x[2], x[2] * step[2], exact)

\* x <= y
AtMost(x, y) == x[1] * y[2] <= y[1] * x[2]

\* the edges of the bounds: whole numbers, which are numbers of Precision
\* bits, the lower one below the upper one
SampleEdges == {0, 10, 32, 33}

SampleBounds ==
    { [minLat |-> <<b[1], 1>>, maxLat |-> <<b[2], 1>>,
       minLon |-> <<b[3], 1>>, maxLon |-> <<b[4], 1>>] :
        b \in { c \in SampleEdges \X SampleEdges \X SampleEdges \X SampleEdges :
                  c[1] < c[2] /\ c[3] < c[4] } }

\* generateSync comes to its sampling loops: lat = minLat
SampleStart(bounds, exact) ==
    /\ lastCall = NoCall
    /\ lastCall' = [op |-> "sampling", args |-> bounds, exact |-> exact,
                    at |-> "lat", lat |-> bounds.minLat, lon |-> bounds.minLon,
                    visited |-> 0, maxLatSeen |-> FALSE, maxLonSeen |-> FALSE,
                    done |-> FALSE]
    /\ UNCHANGED <<generatorVars, methods, pt, pageVars>>

\* one test of a loop condition and what follows it: the latitude loop ends
\* or starts a row at lon = minLon; the longitude loop visits a point and
\* goes on by lon += step, or ends the row by lat += step
SampleStep ==
    /\ lastCall.op = "sampling"
    /\ ~lastCall.done
    /\ lastCall.visited < MaxVisits
    /\ \E bounds \in {lastCall.args} :
       \E latStep \in {StepOf(bounds.minLat, bounds.maxLat, lastCall.exact)},
          lonStep \in {StepOf(bounds.minLon, bounds.maxLon, lastCall.exact)} :
          lastCall' =
             IF lastCall.at = "lat"
             THEN IF AtMost(lastCall.lat, bounds.maxLat)
                  THEN [lastCall EXCEPT !.at = "lon", !.lon = bounds.minLon]
                  ELSE [lastCall EXCEPT !.done = TRUE]
             ELSE IF AtMost(lastCall.lon, bounds.maxLon)
                  THEN [lastCall EXCEPT
                          !.visited = @ + 1,
                          !.maxLatSeen = @ \/ lastCall.lat = bounds.maxLat,
                          !.maxLonSeen = @ \/ lastCall.lon = bounds.maxLon,
                          !.lon = Advance(@, lonStep, lastCall.exact)]
                  ELSE [lastCall EXCEPT
                          !.at = "lat",
                          !.lat = Advance(@, latStep, lastCall.exact)]
    /\ UNCHANGED <<generatorVars, methods, pt, pageVars>>

NextSample ==
    \/ \E bounds \in SampleBounds, exact \in BOOLEAN : SampleStart(bounds, exact)
    \/ SampleStep

\* a loop that can go on does go on
SampleSpec == Init /\ [][NextSample]_vars /\ WF_vars(SampleStep)

----------------------------------------------------------------------------
(* Calls of the engine: instances are made and asked for times *)

MaxCalls == 2

\* the method names given to the constructor; "Other" is not a method
MethodInputs == {"MWL", "Makkah", "Tehran", "Other"}

\* the two solstices of 2024
DateInputs == {<<2024, 6, 21>>, <<2024, 12, 21>>}

\* low, middle and polar latitudes, two longitudes, with and without an
\* elevation
CoordInputs ==
    { <<lat, 40>> : lat \in {21, 55, 70} } \cup { <<55, 0>>, <<21, 40, 900>> }

FormatInputs == {"Float", "null"}

\* the number of getTimes calls made so far, counted up to MaxCalls
Calls == IF "calls" \in DOMAIN lastCall THEN lastCall.calls ELSE 0

NewPrayTimes(method) ==
    /\ methods' = FillDefaults(methods)
    /\ pt' = Construct(methods, method)
    /\ lastCall' = [op |-> "new", args |-> method, calls |-> Calls]
    /\ UNCHANGED <<generatorVars, pageVars>>

GetTimes(date, coords, timezone, dst, format) ==
    /\ pt.made
    /\ pt' = Enter(pt, date, coords, timezone, dst, format)
    /\ lastCall' = [op |-> "getTimes", date |-> date, coords |-> coords,
                    timezone |-> timezone, dst |-> dst, format |-> format,
                    calls |-> Min2(Calls + 1, MaxCalls),
                    result |-> computeTimes(pt')]
    /\ UNCHANGED <<generatorVars, methods, pageVars>>

NextTimes ==
    \/ \E method \in MethodInputs : NewPrayTimes(method)
    \/ \E date \in DateInputs, coords \in CoordInputs, format \in FormatInputs :
          GetTimes(date, coords, 3, FALSE, format)

TimesSpec == Init /\ [][NextTimes]_vars

----------------------------------------------------------------------------
(* Properties *)

TimedOut == "Isochrone calculation timed out"

\* C1: on the promise of every request id, resolve or reject is called at
\* most once, whatever the order of worker replies (several for one id
\* included), timers and worker errors.
C1_SettledAtMostOnce ==
    \A id \in DOMAIN promise :
        /\ promise[id].calls <= 1
        /\ id \in pendingRequests => promise[id].calls = 0

\* the only request made has been settled, its timer has run, the worker has
\* raised an error and at least two replies for it have been handled
C1_Witness ==
    /\ requestId = 1
    /\ promise[1].calls = 1
    /\ 1 \notin timers
    /\ nCrashes > 0
    /\ nReplies >= 2
    /\ outbox = << >>
    /\ worker = "alive"

\* a timer that finds its id pending removes it and rejects the promise
\* as timed out
TimeoutEffect ==
    \A id \in 1 .. MaxRequests :
        (id \in pendingRequests /\ Timeout(id)) =>
            /\ id \notin pendingRequests'
            /\ promise'[id] =
                  [state |-> "rejected", value |-> TimedOut, calls |-> 1]

\* C2: every request made while a worker exists is eventually settled and
\* leaves pendingRequests, also when the worker never replies; the timer
\* that finds the id pending removes it and rejects the promise as timed out.
C2_EventuallySettled ==
    /\ \A id \in 1 .. MaxRequests :
          (id \in pendingRequests) ~>
              (/\ id \notin pendingRequests
               /\ id \in DOMAIN promise
               /\ promise[id].state # "pending")
    /\ [][TimeoutEffect]_vars

\* a request rejected by its timer while the worker has sent nothing
C2_Witness ==
    /\ nReplies = 0
    /\ nCrashes = 0
    /\ \E id \in DOMAIN promise :
          promise[id].state = "rejected" /\ promise[id].value = TimedOut

\* C3: handleWorkerMessage for an id that is not pending settles no promise
\* and leaves pendingRequests and requestId as they are.
C3_StaleReplyIgnored ==
    [][(/\ outbox # << >>
        /\ Head(outbox).id \notin pendingRequests
        /\ HandleWorkerMessage)
       => UNCHANGED <<pendingRequests, requestId, promise, timers>>]_vars

\* the first request timed out and the replies sent for it have all been
\* handled, while the second request is pending
C3_Witness ==
    /\ requestId = 2
    /\ promise[1].value = TimedOut
    /\ pendingRequests = {2}
    /\ nReplies >= 1
    /\ outbox = << >>
    /\ worker = "alive"

\* C4: the ids handed out are 1, 2, 3, ... in this order, none twice; the
\* keys of pendingRequests and the promises made are among them, so every
\* key is at most requestId.
C4_IdsUnique ==
    /\ Len(posted) = requestId
    /\ \A k \in 1 .. Len(posted) : posted[k] = k
    /\ DOMAIN promise = 1 .. requestId
    /\ pendingRequests \subseteq 1 .. requestId

\* several requests in flight at once
C4_Witness ==
    /\ requestId >= 2
    /\ Cardinality(pendingRequests) >= 2

\* C5: without a worker generate() returns the result of generateSync and
\* posts no message, arms no timer, and leaves requestId, pendingRequests
\* and the promises of earlier requests as they are.
C5_FallbackFrame ==
    [][\A prayer \in FewPrayers, field \in FewFields :
          (/\ worker = "none"
           /\ lastSync'.called
           /\ lastSync'.prayer = prayer
           /\ lastSync'.field = field
           /\ Generate(prayer, field)) =>
              /\ UNCHANGED <<requestId, pendingRequests, posted, timers,
                             promise, outbox>>
              /\ lastSync'.called
              /\ lastSync'.result = generateSync(prayer, field)]_vars

\* the fallback answered after terminate() while a request was in flight
C5_Witness ==
    /\ lastSync.called
    /\ worker = "none"
    /\ pendingRequests # {}
    /\ timers # {}

\* the promise p is settled as the reply e asks: rejected with the error of
\* an error reply, resolved with the result otherwise, by one call
ReplyOutcome(e, p) ==
    /\ p.calls = 1
    /\ IF e.type = "error" \/ e.error # "none"
       THEN /\ p.state = "rejected"
            /\ p.value = (IF e.error # "none" THEN e.error ELSE "Worker error")
       ELSE /\ p.state = "resolved"
            /\ p.value = "result"

\* C6: generateSync returns an object with exactly one of the keys bands and
\* error, and a reply for a pending id either resolves the promise with the
\* result or rejects it with the error.
C6_BandsOrError ==
    /\ [](lastSync.called =>
            \/ DOMAIN lastSync.result = {"bands"}
            \/ DOMAIN lastSync.result = {"error"})
    /\ [][(/\ outbox # << >>
           /\ Head(outbox).id \in pendingRequests
           /\ HandleWorkerMessage)
          => ReplyOutcome(Head(outbox), promise'[Head(outbox).id])]_vars

\* one request resolved, one rejected by a reply, and a band list returned
\* by the fallback
C6_Witness ==
    /\ lastSync.called
    /\ DOMAIN lastSync.result = {"bands"}
    /\ \E id \in DOMAIN promise : promise[id].state = "resolved"
    /\ \E id \in DOMAIN promise :
          promise[id].state = "rejected" /\ promise[id].value = "Worker error"

\* no visited grid point has a time for the prayer
NoSampleHasTime(prayer, field) ==
    \A i \in LatSteps(field), j \in LonSteps(field) :
        getTimes(prayer, field, i, j).kind # "number"

\* C7: if no grid sample has a valid time for the prayer, the result is the
\* error 'No valid times found' and carries no bands.
C7_NoValidSamples ==
    (lastSync.called /\ NoSampleHasTime(lastSync.prayer, lastSync.field)) =>
        lastSync.result = [error |-> "No valid times found"]

\* a prayer of the table over a region where it does not occur
C7_Witness ==
    /\ lastSync.called
    /\ lastSync.prayer \in TablePrayers
    /\ lastSync.field.polarFrom = 0
    /\ DOMAIN lastSync.result = {"error"}

\* C8: a prayer name outside the table gets the error InvalidPrayer, which
\* is not the error of a region without samples, before any point is solved.
C8_InvalidPrayer ==
    (lastSync.called /\ lastSync.prayer \notin TablePrayers) =>
        /\ DOMAIN lastSync.result = {"error"}
        /\ lastSync.result.error = "InvalidPrayer"
        /\ lastSync.result.error # NoSamplesResult.error
        /\ lastSync.solves = 0

\* the sample times of the last call
LastSamples == sampleTimes(lastSync.prayer, lastSync.field)

\* C9: if all sample times lie within one integer minute, the result is the
\* error DegenerateRange and no band list.
C9_DegenerateRange ==
    (/\ lastSync.called
     /\ LastSamples # {}
     /\ Floor(SetMin(LastSamples)) = Floor(SetMax(LastSamples))) =>
        lastSync.result = [error |-> "DegenerateRange"]

\* C10: when there are samples, the bands are those of the minutes
\* floor(min) - 2, ..., ceil(max) + 2, one each, in increasing order.
C10_BandRange ==
    (lastSync.called /\ LastSamples # {}) =>
        LET lo == Floor(SetMin(LastSamples)) - 2
            hi == Ceil(SetMax(LastSamples)) + 2
        IN  /\ DOMAIN lastSync.result = {"bands"}
            /\ Len(lastSync.result.bands) = hi - lo + 1
            /\ \A k \in 1 .. Len(lastSync.result.bands) :
                  lastSync.result.bands[k].minute = lo + k - 1

\* the bands of the last result, none if it is an error
LastBands ==
    IF lastSync.called /\ "bands" \in DOMAIN lastSync.result
    THEN lastSync.result.bands ELSE << >>

\* the mean of the four corners of the band's ring
Centroid(band) ==
    LET p == polygon(band)
    IN  << <<p[1][1][1] + p[2][1][1] + p[3][1][1] + p[4][1][1], 4 * p[1][1][2]>>,
           <<p[1][2][1] + p[2][2][1] + p[3][2][1] + p[4][2][1], 4>> >>

\* the fraction lies strictly between 5% and 95%
InsideMargin(f) == 20 * f[1] > f[2] /\ 20 * f[1] < 19 * f[2]

\* C11: a band has a label only if the centroid of its points lies strictly
\* inside the bounds shrunk by 5% of the width and of the height on each side.
C11_LabelInsideMargin ==
    \A k \in 1 .. Len(LastBands) :
        "label" \in DOMAIN LastBands[k] =>
            /\ InsideMargin(Centroid(LastBands[k])[1])
            /\ InsideMargin(Centroid(LastBands[k])[2])

\* twice the time of the prayer at point point of the region, times the
\* denominator of its longitude (the field is linear between grid points)
FieldTime2(field, point) ==
    2 * (field.base * point[1][2] - field.dLon * GridSteps * point[1][1]
         + field.dLat * GridSteps * point[2][1] * point[1][2])

\* the prayer occurs at point point half a minute before or after minute m
OnCurveOf(field, m, point) ==
    /\ GridSteps * point[2][1] < field.polarFrom
    /\ \/ FieldTime2(field, point) = (2 * m - 1) * Scale * point[1][2]
       \/ FieldTime2(field, point) = (2 * m + 1) * Scale * point[1][2]

\* C13: the polygon of the band of minute m is made of the isochrone curves
\* of m - 0.5 and m + 0.5 minutes: each of its points is a point where the
\* prayer occurs at one of these two clock times.
C13_PolygonOnCurves ==
    \A k \in 1 .. Len(LastBands) :
        \A v \in 1 .. Len(polygon(LastBands[k])) :
            OnCurveOf(lastSync.field, LastBands[k].minute,
                      polygon(LastBands[k])[v])

\* C18: the label of every band is a clock time: hours in 0..23, minutes in
\* 0..59, the time of day of the band's minute modulo 1440.
C18_LabelWellFormed ==
    \A k \in 1 .. Len(LastBands) :
        LET l == LastBands[k].label
        IN  /\ l.hours \in 0 .. 23
            /\ l.mins \in 0 .. 59
            /\ l.hours * 60 + l.mins = LastBands[k].minute % 1440

\* band i of the list is neither skipped for its polygon nor outside
Emits(bands, i) == bands[i].points >= MinPoints /\ bands[i].turf # "outside"

\* the position in the output of the entry of band i
PositionOf(bands, i) == Cardinality({ j \in 1 .. i : Emits(bands, j) })

Throws(band) == band.turf \in {"intersectThrows", "centroidThrows"}

\* clipBands went through the loop over the bands
Clipping == /\ lastCall.op = "clipBands"
            /\ lastCall.turfLoaded
            /\ HasCountryFeature(lastCall.country)

\* C14: a band whose intersection or centroid throws has its original entry
\* in the output, at the place of that band among the entries; the call
\* returns, and the entry of every other band is what that band alone gives.
C14_ClipFailureKeepsBand ==
    Clipping =>
        LET bands == lastCall.args
            out == lastCall.result
        IN  /\ Len(out) = PositionOf(bands, Len(bands))
            /\ \A i \in 1 .. Len(bands) :
                  Emits(bands, i) =>
                      out[PositionOf(bands, i)] =
                          IF Throws(bands[i]) THEN bands[i]
                          ELSE Clipped(bands[i])

\* a band clipped, then one whose intersection throws, then one whose
\* centroid throws: the output holds the clipped entry and the two originals
C14_Witness ==
    /\ Clipping
    /\ Len(lastCall.args) = 3
    /\ lastCall.args[1].turf = "inside" /\ lastCall.args[1].points = 5
    /\ lastCall.args[2].turf = "intersectThrows"
    /\ lastCall.args[3].turf = "centroidThrows"
    /\ lastCall.result = <<Clipped(lastCall.args[1]), lastCall.args[2],
                           lastCall.args[3]>>

\* the value of the leading numeric token of st, 0 if there is none
LeadingNumber(st) ==
    LET r == parseFloat(PrefixIn(String(st), NumberChars))
    IN  IF r = NaN THEN Num(0) ELSE r

\* C19: eval returns the value of the leading numeric token of its argument
\* and 0 for an empty or unparseable argument, never NaN.
C19_EvalNeverNaN ==
    lastCall.op = "eval" => lastCall.result = LeadingNumber(lastCall.args)

LeapsBefore(y) == (y - 1) \div 4 - (y - 1) \div 100 + (y - 1) \div 400

RECURSIVE DayOfYear(_, _, _)
DayOfYear(y, m, d) ==
    IF m = 1 THEN d ELSE MonthLen(y, m - 1) + DayOfYear(y, m - 1, d)

\* the number of days from 2000-01-01 to the date
DaysSince2000(y, m, d) ==
    365 * (y - 2000) + LeapsBefore(y) - LeapsBefore(2000) + DayOfYear(y, m, d) - 1

\* the calendar day after the date
NextDay(y, m, d) ==
    IF d < MonthLen(y, m) THEN <<y, m, d + 1>>
    ELSE IF m < 12 THEN <<y, m + 1, 1>>
    ELSE <<y + 1, 1, 1>>

\* C20: julian(y, m, d) is 2451544.5 plus the number of days from 2000-01-01
\* to the date, and the day after the date has a Julian date greater by 1.
C20_JulianCountsDays ==
    lastCall.op = "julian" =>
        LET y == lastCall.args[1]
            m == lastCall.args[2]
            d == lastCall.args[3]
            n == NextDay(y, m, d)
        IN  /\ lastCall.result = 4903089 + 2 * DaysSince2000(y, m, d)
            /\ julian(n[1], n[2], n[3]) = lastCall.result + 2

\* the leap day of 2000: 59 days after 2000-01-01
C20_Witness ==
    /\ lastCall.op = "julian"
    /\ lastCall.args = <<2000, 2, 29>>
    /\ lastCall.result = 4903089 + 2 * 59

\* the instance as the last getTimes call left it
Asked == lastCall.op = "getTimes"

\* the prayers whose time is the time of an angle of the sun
AnglePrayers(p) ==
    {"fajr", "sunrise", "asr", "sunset"}
        \cup { x \in {"maghrib", "isha"} : ~isMin(p.settings[x]) }

\* the cosine of the hour angle of the prayer is outside [-1, 1]
NoHourAngle(p, prayer) == IsNaN(computePrayerTimes(p, FirstTimes)[prayer])

\* C12: a prayer whose hour-angle cosine is outside [-1, 1] at the point
\* asked for has no value in the result, and so gives no sample.
C12_NoSubstituteTime ==
    Asked =>
        \A prayer \in AnglePrayers(pt) :
            NoHourAngle(pt, prayer) =>
                /\ lastCall.result[prayer] = InvalidTime
                /\ ~Truthy_NotNaN(lastCall.result[prayer])

\* the same call made on the first instance of a program that has made no
\* other call
FreshResult ==
    computeTimes(Enter(Construct(StaticMethods, pt.calcMethod), lastCall.date,
                       lastCall.coords, lastCall.timezone, lastCall.dst,
                       lastCall.format))

\* C15: a getTimes call returns what the same call returns on a newly made
\* instance with the same settings, whatever calls were made before it.
C15_NoStateCarriedOver ==
    Asked => /\ lastCall.result = FreshResult
             /\ pt.settings = Construct(StaticMethods, pt.calcMethod).settings

\* a second call, without an elevation, on the Makkah instance
C15_Witness ==
    /\ Asked
    /\ lastCall.calls >= 2
    /\ Len(lastCall.coords) = 2
    /\ pt.calcMethod = "Makkah"
    /\ methods # StaticMethods
    /\ lastCall.result.dhuhr # InvalidTime

\* C16: the dhuhr of the result is the dhuhr of the same call at any other
\* latitude.
C16_DhuhrSameAtAllLatitudes ==
    Asked =>
        \A lat \in {c[1] : c \in CoordInputs} :
            computeTimes([pt EXCEPT !.lat = lat]).dhuhr = lastCall.result.dhuhr

\* a call at a latitude where fajr has no hour angle and is set from the
\* night, and dhuhr has a value
C16_Witness ==
    /\ Asked
    /\ pt.lat = 55
    /\ NoHourAngle(pt, "fajr")
    /\ lastCall.result.fajr # InvalidTime
    /\ lastCall.result.dhuhr # InvalidTime

\* the minute of the day of a formatted time
MinuteOfDay(t) == IF t.kind = "24h" THEN 60 * t.hours + t.mins ELSE 0

\* C17: with the Makkah method, isha is 90 minutes after maghrib wherever
\* maghrib has a value.
C17_IshaAfterMaghrib ==
    (Asked /\ pt.calcMethod = "Makkah"
        /\ lastCall.result.maghrib # InvalidTime) =>
        LET isha == lastCall.result.isha
            maghrib == lastCall.result.maghrib
        IN  IF maghrib.kind = "number"
            THEN isha = Number(maghrib.v + 90 * Scale)
            ELSE /\ isha.kind = "24h"
                 /\ MinuteOfDay(isha) = (MinuteOfDay(maghrib) + 90) % 1440

\* the mode of the call: 360 for fixangle, 24 for fixhour
ModeOf(call) == IF call.op = "fixangle" THEN Float(360, 0) ELSE Float(24, 0)

\* x - y is a whole multiple of mode, exactly
Congruent(x, y, mode) ==
    (Numer(x) * Denom(y) - Numer(y) * Denom(x))
        % (Denom(x) * Denom(y) * Numer(mode)) = 0

\* C21: for every finite a, negative values included, fixangle(a) lies in
\* [0, 360) and fixhour(a) in [0, 24), congruent to a modulo 360 resp. 24,
\* and applying the function twice gives the same as applying it once.
C21_FixWraps ==
    (lastCall.op \in {"fixangle", "fixhour"} /\ ~IsNaN(lastCall.args)) =>
        LET mode == ModeOf(lastCall)
            r == lastCall.result
        IN  /\ ~Less(r, Float(0, 0))
            /\ Less(r, mode)
            /\ Congruent(r, lastCall.args, mode)
            /\ fixFloat(r, mode) = r

\* the run was caused by the most recent call of the wrapper, wait ticks or
\* more after it, and has its arguments
RunOfLastCall(run) ==
    /\ run.call \in 1 .. Len(wrapperCalls)
    /\ run.calls = run.call
    /\ run.at >= wrapperCalls[run.call].at + debounced.wait
    /\ run.args = wrapperCalls[run.call].args

\* call k was followed by another call less than wait ticks later
Superseded(k) ==
    /\ k + 1 \in 1 .. Len(wrapperCalls)
    /\ wrapperCalls[k + 1].at - wrapperCalls[k].at < debounced.wait

DebounceSafe ==
    /\ \A i \in 1 .. Len(funcRuns) : RunOfLastCall(funcRuns[i])
    /\ \A i, j \in 1 .. Len(funcRuns) :
          funcRuns[i].call = funcRuns[j].call => i = j
    /\ \A i \in 1 .. Len(funcRuns) : ~Superseded(funcRuns[i].call)

\* C22: the debounced func runs only when wait has passed since the most
\* recent call of the wrapper with no call in between, with the arguments of
\* that call; of a burst of calls less than wait apart only the last one
\* causes a run, one run, and it does cause it unless a new call comes.
C22_DebounceRunsLast ==
    /\ []DebounceSafe
    /\ \A k \in 1 .. MaxWrapperCalls :
          (Len(wrapperCalls) = k)
              ~> (\/ Len(wrapperCalls) > k
                  \/ \E i \in 1 .. Len(funcRuns) : funcRuns[i].call = k)

\* two calls less than wait apart with different arguments, and one run
C22_Witness ==
    /\ Len(wrapperCalls) = 2
    /\ Superseded(1)
    /\ wrapperCalls[1].args # wrapperCalls[2].args
    /\ Len(funcRuns) = 1
    /\ funcRuns[1].args = wrapperCalls[2].args

\* a run is made by a call, at once, with the arguments of the call
RunAtOnce(run) ==
    /\ run.call \in 1 .. Len(wrapperCalls)
    /\ run.calls = run.call
    /\ run.at = wrapperCalls[run.call].at
    /\ run.args = wrapperCalls[run.call].args

\* two runs are limit ticks apart or more, the first call runs, every run is
\* made at once by a call
ThrottleSafe ==
    /\ \A i, j \in 1 .. Len(funcRuns) :
          i < j => funcRuns[j].at - funcRuns[i].at >= throttled.limit
    /\ Len(wrapperCalls) >= 1 => (Len(funcRuns) >= 1 /\ funcRuns[1].call = 1)
    /\ \A i \in 1 .. Len(funcRuns) : RunAtOnce(funcRuns[i])

\* the last run made before call k, k > 1
RunBefore(k) ==
    CHOOSE i \in 1 .. Len(funcRuns) :
        /\ funcRuns[i].call < k
        /\ \A j \in 1 .. Len(funcRuns) : funcRuns[j].call < k => j <= i

Ran(k) == \E i \in 1 .. Len(funcRuns) : funcRuns[i].call = k

\* a call that comes more than limit ticks after the last run runs
RunsAfterLimit ==
    \A k \in 2 .. Len(wrapperCalls) :
        wrapperCalls[k].at > funcRuns[RunBefore(k)].at + throttled.limit
            => Ran(k)

Crashed == [state |-> "rejected", value |-> "Worker crashed", calls |-> 1]

\* C26: on a worker error event every request pending at that moment is
\* rejected with 'Worker crashed' and pendingRequests becomes empty; the
\* timers and the replies that come later for those ids change nothing.
C26_CrashRejectsPending ==
    /\ [][HandleWorkerError =>
            /\ pendingRequests' = {}
            /\ \A id \in DOMAIN promise :
                  promise'[id] =
                      IF id \in pendingRequests THEN Crashed ELSE promise[id]]_vars
    /\ [][\A id \in DOMAIN promise :
            promise[id].value = "Worker crashed" =>
                /\ promise'[id] = Crashed
                /\ id \notin pendingRequests']_vars

\* the only request was rejected by the error event; after that its timer
\* has run and the replies sent for it have been handled
C26_Witness ==
    /\ requestId = 1
    /\ promise[1] = Crashed
    /\ 1 \notin timers
    /\ nReplies >= 1
    /\ outbox = << >>
    /\ worker = "alive"

\* C27: terminate() settles no promise and leaves pendingRequests as it is;
\* every request pending without a worker leaves pendingRequests by its own
\* timer only, and is in the end rejected as timed out.
C27_TerminatedTimesOut ==
    /\ [][Terminate => UNCHANGED <<promise, pendingRequests, timers>>]_vars
    /\ [][\A id \in 1 .. MaxRequests :
            (worker = "none" /\ id \in pendingRequests
                 /\ id \notin pendingRequests') => Timeout(id)]_vars
    /\ \A id \in 1 .. MaxRequests :
          (worker = "none" /\ id \in pendingRequests) ~>
              (/\ id \notin pendingRequests
               /\ id \in DOMAIN promise
               /\ promise[id] =
                     [state |-> "rejected", value |-> TimedOut, calls |-> 1])

\* after terminate() the first request has been rejected by its timer and
\* the second is still pending with its timer armed
C27_Witness ==
    /\ worker = "none"
    /\ requestId = 2
    /\ promise[1].value = TimedOut
    /\ 2 \in pendingRequests
    /\ 2 \in timers
    /\ nReplies = 0
    /\ nCrashes = 0

\* C24: once onClearIsochrones has run, the map shows no isochrone layers
\* and state.activeIsochrone is null until a new isochrone request is
\* issued, also when an earlier request was in flight at the clear.
C24_ClearedUntilRequest ==
    sinceClear =>
        /\ mapManager.isochroneLayers = << >>
        /\ appState.activeIsochrone = "none"

\* C25: the bands displayed were computed from the bounds and the time zone
\* of the country in state.currentCountry and clipped against that country.
C25_BandsOfCurrentCountry ==
    mapManager.isochroneLayers # << >> =>
        /\ mapManager.drawnFrom.bounds = appState.currentCountry
        /\ mapManager.drawnFrom.timezone = appState.currentCountry
        /\ mapManager.drawnFrom.clip = appState.currentCountry

\* the step calls isochroneGenerator.generate for the prayer
GenerateCalled(prayer) == running' = Append(running, Request(prayer))

\* C28: isochroneGenerator.generate is only called while
\* state.currentCountry is set and the map has country bounds, whatever the
\* order of the events of the page.
C28_GenerateNeedsCountry ==
    [][\A prayer \in IsoButtons :
          GenerateCalled(prayer) =>
              /\ appState.currentCountry # "none"
              /\ mapManager.bounds # "none"]_vars

\* generate was called after a country load that failed: the country is the
\* one that failed, the bounds are those of the country before
C28_Witness ==
    \E i \in 1 .. Len(running) :
        /\ running[i].op = "isochrone"
        /\ running[i].country # running[i].bounds
        /\ ~appState.countryData.outline
        /\ ~uiManager.isoButtonsEnabled

\* C29: state.activeIsochrone is null exactly when state.lastClippedBands
\* is null.
C29_ActiveIffBands ==
    (appState.activeIsochrone = "none") <=> (appState.lastClippedBands = NoBands)

\* a request has set both after onClearIsochrones had reset both
C29_Witness ==
    /\ appState.activeIsochrone # "none"
    /\ appState.lastClippedBands.prayer = appState.activeIsochrone
    /\ uiManager.activeIsoButton = "none"
    /\ sinceClear

InFlight == \E i \in 1 .. Len(running) : running[i].op = "isochrone"

\* C30: whenever no isochrone request is in flight, the highlighted button
\* is the prayer in state.activeIsochrone, none when it is null, and the
\* layers on the map are of that prayer; also after a request that failed.
C30_ButtonIsActivePrayer ==
    ~InFlight =>
        /\ uiManager.activeIsoButton = appState.activeIsochrone
        /\ mapManager.isochroneLayers # << >> =>
              mapManager.drawnFrom.prayer = appState.activeIsochrone

\* C31: when a call of onCountryChange fails, because the outline of the
\* country could not be loaded, state.currentCountry, state.currentTimezone
\* and state.countryData are what they were when the handler was called.
C31_FailureKeepsState ==
    [][(/\ lastCall.op = "onCountryChange"
        /\ running # << >>
        /\ CountryData(1, FALSE)) =>
           StateOfCountry(appState') = lastCall.before]_vars

\* C32: when the second half of onIsochroneRequest has drawn the bands of a
\* request that succeeded, the map has as many isochrone polygon layers as
\* clipBands returned bands, which are kept in state.lastClippedBands.
C32_EveryClippedBandDrawn ==
    [][\A i \in 1 .. MaxRunning, bands \in AppBands :
          (/\ i <= Len(running)
           /\ running[i].op = "isochrone"
           /\ Generated(i, "bands", bands)) =>
              Len(mapManager'.isochroneLayers) =
                  Len(appState'.lastClippedBands.bands)]_vars

\* the bands of a list that have a polygon of at least three points
Drawable(bands) ==
    { i \in 1 .. Len(bands) :
        "points" \in DOMAIN bands[i] /\ bands[i].points >= 3 }

\* C33: after drawIsochrones(bands) the list of layers holds one polygon for
\* each band whose polygon has at least 3 points, in the order of the bands,
\* and nothing else; the label markers are never more than the polygon
\* layers; after clearIsochrones both lists are empty.
C33_LayersOfThisCall ==
    LET bands == lastCall.args
        layers == mapManager.isochroneLayers
    IN  /\ Len(mapManager.isochroneLabels) <= Len(layers)
        /\ lastCall.op = "clearIsochrones" =>
              layers = << >> /\ mapManager.isochroneLabels = << >>
        /\ lastCall.op = "drawIsochrones" =>
              /\ Len(layers) = Cardinality(Drawable(bands))
              /\ \A i \in Drawable(bands) :
                    layers[Cardinality({ j \in Drawable(bands) : j <= i })]
                        .latLngs = <<bands[i].minute, bands[i].points>>

\* a band of three points without label and an entry of clipBands have been
\* drawn: one layer, no marker
C33_Witness ==
    /\ lastCall.op = "drawIsochrones"
    /\ Len(lastCall.args) = 2
    /\ lastCall.args[1] = [minute |-> 1, points |-> 3, label |-> FALSE]
    /\ "geometry" \in DOMAIN lastCall.args[2]
    /\ Len(mapManager.isochroneLayers) = 1
    /\ mapManager.isochroneLabels = << >>

Sampling == lastCall.op = "sampling"

\* the loops visit no more than 11 x 11 points
C34_AtMostGrid == []((Sampling /\ ~lastCall.exact) => lastCall.visited <= 11 * 11)

\* the loops come to their end
C34_Terminates == (Sampling /\ ~lastCall.exact) ~> (Sampling /\ lastCall.done)

\* in exact arithmetic the loops end after 11 x 11 points, and points on the
\* upper edge of each axis are among them; the first point is the lower
\* edge of both
C34_ExactGrid ==
    /\ [](Sampling /\ lastCall.exact =>
            /\ lastCall.visited <= 11 * 11
            /\ lastCall.done =>
                  /\ lastCall.visited = 11 * 11
                  /\ lastCall.maxLatSeen /\ lastCall.maxLonSeen)
    /\ (Sampling /\ lastCall.exact) ~> (Sampling /\ lastCall.done)

\* C34: for bounds with minLon < maxLon and minLat < maxLat the sampling
\* loops of generateSync come to their end after at most 11 x 11 points; in
\* exact arithmetic the points are the whole grid, both edges of each axis
\* among them.
C34_SamplingGrid == C34_AtMostGrid /\ C34_Terminates /\ C34_ExactGrid

====
